---------------------------- MODULE Spec2Model ----------------------------
(***************************************************************************)
(* Easy Mirror: the anthropometric Measurement Engine                      *)
(* (src/anthropometric_measurements.py) and the Sex Predictor              *)
(* (src/sex_prediction.py).                                                *)
(*                                                                         *)
(* Numbers.  The Python code computes in binary floating point.  The model *)
(* computes in exact arithmetic: a number is a reduced fraction <<n, d>>   *)
(* with d > 0, and Python's None is the empty tuple.  A pixel distance is  *)
(* a square root; a length derived from it is kept exactly as              *)
(* coef * sqrt(rad) + off (a "surd" record).  round(x, k) is modelled as   *)
(* rounding of the exact value to the nearest multiple of 10^-k, ties to   *)
(* the even multiple.                                                      *)
(***************************************************************************)
EXTENDS Integers, Sequences, FiniteSets, TLC

VARIABLES
    measurements_in,    \* the mapping a predict_sex call is made with (None: no such call)
    result,             \* what predict_sex returned (with its local variables)
    indicator_in,       \* the arguments of a direct evaluate_indicator call (None: no such call)
    indicator_call,     \* what evaluate_indicator returned
    pixel_to_cm_ratio,  \* AnthropometricMeasurements.pixel_to_cm_ratio
    frame,              \* the camera frame calculate_all_measurements is handed
    measurements,       \* what the last calculate_all_measurements call returned
    previous,           \* what the call before it returned
    calibration_call,   \* the last set_calibration call: argument, stored ratio before, return value
    last_accepted,      \* the argument of the last set_calibration call that returned True
    explanation,        \* what get_prediction_explanation returned for result
    running,            \* a calculate_all_measurements call under way in a request thread
    module_copy         \* the engine of src/modules/anthropometric, run beside the first one

vars == <<measurements_in, result, indicator_in, indicator_call,
          pixel_to_cm_ratio, frame, measurements, previous,
          calibration_call, last_accepted, explanation, running, module_copy>>

predictorVars == <<measurements_in, result, indicator_in, indicator_call, explanation>>
engineVars == <<pixel_to_cm_ratio, frame, measurements, previous,
                calibration_call, last_accepted, running, module_copy>>

-----------------------------------------------------------------------------
(* Exact arithmetic on fractions                                           *)

None == <<>>

Abs(i) == IF i < 0 THEN -i ELSE i

RECURSIVE GCD(_, _)
GCD(a, b) == IF b = 0 THEN a ELSE GCD(b, a % b)

\* the fraction n/d (d # 0) in lowest terms with a positive denominator
R(n, d) ==
    LET g == GCD(Abs(n), Abs(d))
        s == IF d < 0 THEN -1 ELSE 1
    IN  <<(s * n) \div g, (s * d) \div g>>

Zero == R(0, 1)
One == R(1, 1)

RAdd(a, b) ==
    LET g == GCD(a[2], b[2])
    IN  R(a[1] * (b[2] \div g) + b[1] * (a[2] \div g), (a[2] \div g) * b[2])
RNeg(a) == <<-a[1], a[2]>>
RSub(a, b) == RAdd(a, RNeg(b))
RMul(a, b) ==
    LET x == R(a[1], b[2])
        y == R(b[1], a[2])
    IN  R(x[1] * y[1], x[2] * y[2])
RDiv(a, b) == RMul(a, R(b[2], b[1]))
RLt(a, b) == RSub(a, b)[1] < 0
RLe(a, b) == RSub(a, b)[1] <= 0
RMin(a, b) == IF RLt(b, a) THEN b ELSE a
RMax(a, b) == IF RLt(a, b) THEN b ELSE a
RAbs(a) == <<Abs(a[1]), a[2]>>

\* floor of a fraction
Floor(a) == IF a[1] >= 0 THEN a[1] \div a[2] ELSE -((-a[1] + a[2] - 1) \div a[2])

\* Python round(a, k) with scale = 10^k: the nearest multiple of 1/scale,
\* an exact tie going to the even multiple
Round(a, scale) ==
    LET x == RMul(a, R(scale, 1))
        lo == Floor(x)
        twice == RSub(RMul(x, R(2, 1)), R(2 * lo + 1, 1))  \* sign of x - (lo + 1/2)
        n == IF twice[1] < 0 THEN lo
             ELSE IF twice[1] > 0 THEN lo + 1
             ELSE IF lo % 2 = 0 THEN lo ELSE lo + 1
    IN  R(n, scale)

\* a measurement value that is not a number: a non-empty str
Text == <<"tall">>

IsText(v) == Len(v) = 1

\* Python truthiness of a value: None and 0 are false, a non-empty str is true
Truthy(v) == v # None /\ (IsText(v) \/ v[1] # 0)

-----------------------------------------------------------------------------
(* SexPredictor.__init__: the threshold tables and the weights             *)

IndicatorNames ==
    {"shoulder_breadth", "standing_height", "head_circumference",
     "shoulder_hip_ratio", "armspan_height_ratio", "head_height_ratio",
     "upperarm_forearm_ratio"}

DirectNames == <<"shoulder_breadth", "standing_height", "head_circumference">>
RatioNames == <<"shoulder_hip_ratio", "armspan_height_ratio", "head_height_ratio",
                "upperarm_forearm_ratio">>

AbsoluteNames == {"shoulder_breadth", "standing_height", "head_circumference",
                  "shoulder_hip_ratio"}

shoulder_breadth_thresholds ==
    [male_min |-> R(38, 1), female_max |-> R(36, 1), overlap_zone |-> <<R(34, 1), R(40, 1)>>]

height_thresholds ==
    [male_min |-> R(165, 1), female_max |-> R(170, 1), overlap_zone |-> <<R(155, 1), R(180, 1)>>]

head_circumference_thresholds ==
    [male_min |-> R(56, 1), female_max |-> R(55, 1), overlap_zone |-> <<R(53, 1), R(58, 1)>>]

shoulder_hip_ratio_thresholds ==
    [male_min |-> R(135, 100), female_max |-> R(125, 100),
     overlap_zone |-> <<R(120, 100), R(140, 100)>>]

armspan_height_ratio_thresholds ==
    [male_typical |-> R(103, 100), female_typical |-> R(100, 100),
     overlap_zone |-> <<R(95, 100), R(108, 100)>>]

head_height_ratio_thresholds ==
    [male_typical |-> R(33, 100), female_typical |-> R(31, 100),
     overlap_zone |-> <<R(30, 100), R(35, 100)>>]

upperarm_forearm_ratio_thresholds ==
    [male_typical |-> R(145, 100), female_typical |-> R(140, 100),
     overlap_zone |-> <<R(135, 100), R(150, 100)>>]

\* the table evaluate_indicator reads for an absolute-threshold indicator
AbsoluteThresholds(indicator_type) ==
    CASE indicator_type = "shoulder_breadth" -> shoulder_breadth_thresholds
      [] indicator_type = "standing_height" -> height_thresholds
      [] indicator_type = "head_circumference" -> head_circumference_thresholds
      [] indicator_type = "shoulder_hip_ratio" -> shoulder_hip_ratio_thresholds

\* the divisor and the base confidence of an absolute-threshold indicator
AbsoluteScale(indicator_type) ==
    CASE indicator_type = "shoulder_breadth" -> [divisor |-> R(5, 1), base |-> R(6, 10)]
      [] indicator_type = "standing_height" -> [divisor |-> R(15, 1), base |-> R(5, 10)]
      [] indicator_type = "head_circumference" -> [divisor |-> R(3, 1), base |-> R(6, 10)]
      [] indicator_type = "shoulder_hip_ratio" -> [divisor |-> R(2, 10), base |-> R(6, 10)]

\* the weight of the shoulder breadth is 0.30
indicator_weights_m19 ==
    [n \in IndicatorNames |->
        CASE n = "shoulder_breadth" -> R(30, 100)
          [] n = "standing_height" -> R(15, 100)
          [] n = "head_circumference" -> R(15, 100)
          [] n = "shoulder_hip_ratio" -> R(20, 100)
          [] n = "armspan_height_ratio" -> R(10, 100)
          [] n = "head_height_ratio" -> R(10, 100)
          [] n = "upperarm_forearm_ratio" -> R(5, 100)]

indicator_weights ==
    [n \in IndicatorNames |->
        CASE n = "shoulder_breadth" -> R(25, 100)
          [] n = "standing_height" -> R(15, 100)
          [] n = "head_circumference" -> R(15, 100)
          [] n = "shoulder_hip_ratio" -> R(20, 100)
          [] n = "armspan_height_ratio" -> R(10, 100)
          [] n = "head_height_ratio" -> R(10, 100)
          [] n = "upperarm_forearm_ratio" -> R(5, 100)]

-----------------------------------------------------------------------------
(* SexPredictor.calculate_hip_width_estimate, calculate_ratios             *)

MeasurementKeys ==
    {"shoulder_breadth", "standing_height", "arm_span", "head_circumference",
     "waist_circumference", "left_upper_arm_length", "left_forearm_length",
     "right_upper_arm_length", "right_forearm_length"}

\* without a waist circumference the hip width is taken from the shoulders
calculate_hip_width_estimate_m23(m) ==
    IF Truthy(m["waist_circumference"]) THEN RDiv(m["waist_circumference"], R(35, 10))
    ELSE IF Truthy(m["shoulder_breadth"]) THEN RDiv(m["shoulder_breadth"], R(13, 10))
    ELSE None

calculate_hip_width_estimate(m) ==
    LET waist_circ == m["waist_circumference"]
    IN  IF Truthy(waist_circ) THEN RDiv(waist_circ, R(35, 10)) ELSE None

\* the right pair is tried before the left one
calculate_ratios_m29(m) ==
    LET shoulder_breadth == m["shoulder_breadth"]
        hip_width == calculate_hip_width_estimate(m)
        arm_span == m["arm_span"]
        height == m["standing_height"]
        head_circ == m["head_circumference"]
        left_upper == m["left_upper_arm_length"]
        left_forearm == m["left_forearm_length"]
        right_upper == m["right_upper_arm_length"]
        right_forearm == m["right_forearm_length"]
    IN  [shoulder_hip_ratio |->
            IF Truthy(shoulder_breadth) /\ Truthy(hip_width)
            THEN RDiv(shoulder_breadth, hip_width) ELSE None,
         armspan_height_ratio |->
            IF Truthy(arm_span) /\ Truthy(height) THEN RDiv(arm_span, height) ELSE None,
         head_height_ratio |->
            IF Truthy(head_circ) /\ Truthy(height) THEN RDiv(head_circ, height) ELSE None,
         upperarm_forearm_ratio |->
            IF Truthy(right_upper) /\ Truthy(right_forearm)
            THEN RDiv(right_upper, right_forearm)
            ELSE IF Truthy(left_upper) /\ Truthy(left_forearm)
            THEN RDiv(left_upper, left_forearm) ELSE None]

calculate_ratios(m) ==
    LET shoulder_breadth == m["shoulder_breadth"]
        hip_width == calculate_hip_width_estimate(m)
        arm_span == m["arm_span"]
        height == m["standing_height"]
        head_circ == m["head_circumference"]
        left_upper == m["left_upper_arm_length"]
        left_forearm == m["left_forearm_length"]
        right_upper == m["right_upper_arm_length"]
        right_forearm == m["right_forearm_length"]
    IN  [shoulder_hip_ratio |->
            IF Truthy(shoulder_breadth) /\ Truthy(hip_width)
            THEN RDiv(shoulder_breadth, hip_width) ELSE None,
         armspan_height_ratio |->
            IF Truthy(arm_span) /\ Truthy(height) THEN RDiv(arm_span, height) ELSE None,
         head_height_ratio |->
            IF Truthy(head_circ) /\ Truthy(height) THEN RDiv(head_circ, height) ELSE None,
         upperarm_forearm_ratio |->
            IF Truthy(left_upper) /\ Truthy(left_forearm)
            THEN RDiv(left_upper, left_forearm)
            ELSE IF Truthy(right_upper) /\ Truthy(right_forearm)
            THEN RDiv(right_upper, right_forearm) ELSE None]

-----------------------------------------------------------------------------
(* SexPredictor.evaluate_indicator                                         *)

\* min(1.0, x) without the cap
CapConfidence_m1(x) == x

\* min(1.0, x): the cap every linear confidence term goes through
CapConfidence(x) == RMin(One, x)

\* the uncertain band is taken to be the whole overlap zone
EvaluateAbsolute_m7(value, indicator_type) ==
    LET thresholds == AbsoluteThresholds(indicator_type)
        scale == AbsoluteScale(indicator_type)
    IN  IF RLe(thresholds.overlap_zone[1], value) /\ RLe(value, thresholds.overlap_zone[2])
        THEN [prediction |-> "uncertain", confidence |-> R(3, 10)]
        ELSE IF RLe(thresholds.male_min, value)
        THEN [prediction |-> "male",
              confidence |-> CapConfidence(
                  RAdd(RDiv(RSub(value, thresholds.male_min), scale.divisor), scale.base))]
        ELSE [prediction |-> "female",
              confidence |-> CapConfidence(
                  RAdd(RDiv(RSub(thresholds.female_max, value), scale.divisor), scale.base))]

EvaluateAbsolute(value, indicator_type) ==
    LET thresholds == AbsoluteThresholds(indicator_type)
        scale == AbsoluteScale(indicator_type)
    IN  IF RLe(thresholds.male_min, value)
        THEN [prediction |-> "male",
              confidence |-> CapConfidence(
                  RAdd(RDiv(RSub(value, thresholds.male_min), scale.divisor), scale.base))]
        ELSE IF RLe(value, thresholds.female_max)
        THEN [prediction |-> "female",
              confidence |-> CapConfidence(
                  RAdd(RDiv(RSub(thresholds.female_max, value), scale.divisor), scale.base))]
        ELSE [prediction |-> "uncertain", confidence |-> R(3, 10)]

\* equal distances are called for the male side
EvaluateArmspan_m22(value) ==
    LET thresholds == armspan_height_ratio_thresholds
        male_distance == RAbs(RSub(value, thresholds.male_typical))
        female_distance == RAbs(RSub(value, thresholds.female_typical))
    IN  IF RLe(male_distance, female_distance)
        THEN [prediction |-> "male",
              confidence |-> RMax(R(5, 10), RSub(One, RDiv(male_distance, R(5, 100))))]
        ELSE [prediction |-> "female",
              confidence |-> RMax(R(5, 10), RSub(One, RDiv(female_distance, R(5, 100))))]

EvaluateArmspan(value) ==
    LET thresholds == armspan_height_ratio_thresholds
        male_distance == RAbs(RSub(value, thresholds.male_typical))
        female_distance == RAbs(RSub(value, thresholds.female_typical))
    IN  IF RLt(male_distance, female_distance)
        THEN [prediction |-> "male",
              confidence |-> RMax(R(5, 10), RSub(One, RDiv(male_distance, R(5, 100))))]
        ELSE [prediction |-> "female",
              confidence |-> RMax(R(5, 10), RSub(One, RDiv(female_distance, R(5, 100))))]

EvaluateMidpoint(value, thresholds, divisor) ==
    LET male_typical == thresholds.male_typical
        female_typical == thresholds.female_typical
    IN  IF RLe(RDiv(RAdd(male_typical, female_typical), R(2, 1)), value)
        THEN [prediction |-> "male",
              confidence |-> CapConfidence(
                  RAdd(RDiv(RSub(value, female_typical), divisor), R(5, 10)))]
        ELSE [prediction |-> "female",
              confidence |-> CapConfidence(
                  RAdd(RDiv(RSub(male_typical, value), divisor), R(5, 10)))]

\* head_height_ratio is evaluated with the divisor of upperarm_forearm_ratio
evaluate_indicator_m27(value, indicator_type) ==
    IF indicator_type \in AbsoluteNames THEN EvaluateAbsolute(value, indicator_type)
    ELSE IF indicator_type = "armspan_height_ratio" THEN EvaluateArmspan(value)
    ELSE IF indicator_type = "head_height_ratio"
    THEN EvaluateMidpoint(value, head_height_ratio_thresholds, R(1, 10))
    ELSE IF indicator_type = "upperarm_forearm_ratio"
    THEN EvaluateMidpoint(value, upperarm_forearm_ratio_thresholds, R(1, 10))
    ELSE [prediction |-> "uncertain", confidence |-> Zero]

evaluate_indicator(value, indicator_type) ==
    IF indicator_type \in AbsoluteNames THEN EvaluateAbsolute(value, indicator_type)
    ELSE IF indicator_type = "armspan_height_ratio" THEN EvaluateArmspan(value)
    ELSE IF indicator_type = "head_height_ratio"
    THEN EvaluateMidpoint(value, head_height_ratio_thresholds, R(2, 100))
    ELSE IF indicator_type = "upperarm_forearm_ratio"
    THEN EvaluateMidpoint(value, upperarm_forearm_ratio_thresholds, R(1, 10))
    ELSE [prediction |-> "uncertain", confidence |-> Zero]

-----------------------------------------------------------------------------
(* SexPredictor.predict_sex                                                *)

\* "value is not None" with Python truthiness in its place: 0 is skipped
Present_m8(value) == Truthy(value)

\* the "if value is not None" test in front of each indicator
Present(value) == value # None

\* total_weight grows only for a definite male/female label
AddWeight_m4(total_weight, weight, prediction) ==
    IF prediction \in {"male", "female"} THEN RAdd(total_weight, weight) ELSE total_weight

\* total_weight += weight, whatever the label
AddWeight(total_weight, weight, prediction) == RAdd(total_weight, weight)

\* an uncertain label is counted for the male score
AddScore_m5(score, label, weight, prediction, confidence) ==
    IF prediction = label \/ (label = "male" /\ prediction = "uncertain")
    THEN RAdd(score, RMul(weight, confidence)) ELSE score

\* weighted_scores[label] += weight * confidence when the indicator has that label
AddScore(score, label, weight, prediction, confidence) ==
    IF prediction = label THEN RAdd(score, RMul(weight, confidence)) ELSE score

\* the body of the "if value is not None" block: record the indicator, add
\* its vote to the score of its label and its weight to total_weight
Vote(acc, name, value, weight, e) ==
    [indicators |-> acc.indicators @@
         (name :> [value |-> value, prediction |-> e.prediction,
                   confidence |-> e.confidence]),
     male |-> AddScore(acc.male, "male", weight, e.prediction, e.confidence),
     female |-> AddScore(acc.female, "female", weight, e.prediction, e.confidence),
     total_weight |-> AddWeight(acc.total_weight, weight, e.prediction)]

\* a value of 0 is skipped like a missing one
Accumulate_m28(acc, name, value) ==
    IF Truthy(value)
    THEN Vote(acc, name, value, indicator_weights[name], evaluate_indicator(value, name))
    ELSE acc

\* one pass of either loop body
Accumulate(acc, name, value) ==
    IF Present(value)
    THEN Vote(acc, name, value, indicator_weights[name], evaluate_indicator(value, name))
    ELSE acc

RECURSIVE Loop(_, _, _)
Loop(acc, names, values) ==
    IF names = <<>> THEN acc
    ELSE Loop(Accumulate(acc, Head(names), values[Head(names)]), Tail(names), values)

\* a tie is called for the male side
FinalDecision_m2(total_weight, weighted_male, weighted_female) ==
    IF RLt(Zero, total_weight)
    THEN LET male_score == RDiv(weighted_male, total_weight)
             female_score == RDiv(weighted_female, total_weight)
         IN  [prediction |-> IF RLe(female_score, male_score) THEN "male" ELSE "female",
              confidence |-> RMax(male_score, female_score),
              certainty |-> RMin(One, RAdd(RAbs(RSub(male_score, female_score)), R(5, 10))),
              male_score |-> male_score, female_score |-> female_score]
    ELSE [prediction |-> "insufficient_data", confidence |-> Zero, certainty |-> Zero,
          male_score |-> Zero, female_score |-> Zero]

\* the data test looks at the scores instead of the weight
FinalDecision_m3(total_weight, weighted_male, weighted_female) ==
    IF RLt(Zero, RAdd(weighted_male, weighted_female))
    THEN LET male_score == RDiv(weighted_male, total_weight)
             female_score == RDiv(weighted_female, total_weight)
         IN  [prediction |-> IF RLt(female_score, male_score) THEN "male"
                             ELSE IF RLt(male_score, female_score) THEN "female"
                             ELSE "uncertain",
              confidence |-> IF male_score = female_score THEN R(5, 10)
                             ELSE RMax(male_score, female_score),
              certainty |-> RMin(One, RAdd(RAbs(RSub(male_score, female_score)), R(5, 10))),
              male_score |-> male_score, female_score |-> female_score]
    ELSE [prediction |-> "insufficient_data", confidence |-> Zero, certainty |-> Zero,
          male_score |-> Zero, female_score |-> Zero]

\* the certainty is the bare score difference
FinalDecision_m24(total_weight, weighted_male, weighted_female) ==
    IF RLt(Zero, total_weight)
    THEN LET male_score == RDiv(weighted_male, total_weight)
             female_score == RDiv(weighted_female, total_weight)
         IN  [prediction |-> IF RLt(female_score, male_score) THEN "male"
                             ELSE IF RLt(male_score, female_score) THEN "female"
                             ELSE "uncertain",
              confidence |-> IF male_score = female_score THEN R(5, 10)
                             ELSE RMax(male_score, female_score),
              certainty |-> RMin(One, RAbs(RSub(male_score, female_score))),
              male_score |-> male_score, female_score |-> female_score]
    ELSE [prediction |-> "insufficient_data", confidence |-> Zero, certainty |-> Zero,
          male_score |-> Zero, female_score |-> Zero]

\* "Calculate final prediction": normalise, pick the larger, certainty
FinalDecision(total_weight, weighted_male, weighted_female) ==
    IF RLt(Zero, total_weight)
    THEN LET male_score == RDiv(weighted_male, total_weight)
             female_score == RDiv(weighted_female, total_weight)
             score_difference == RAbs(RSub(male_score, female_score))
         IN  [prediction |-> IF RLt(female_score, male_score) THEN "male"
                             ELSE IF RLt(male_score, female_score) THEN "female"
                             ELSE "uncertain",
              confidence |-> IF RLt(female_score, male_score) THEN male_score
                             ELSE IF RLt(male_score, female_score) THEN female_score
                             ELSE R(5, 10),
              certainty |-> RMin(One, RAdd(score_difference, R(5, 10))),
              male_score |-> male_score, female_score |-> female_score]
    ELSE [prediction |-> "insufficient_data", confidence |-> Zero, certainty |-> Zero,
          male_score |-> Zero, female_score |-> Zero]

\* The returned mapping.  total_weight and weighted_scores are the locals of
\* the call at its return, kept beside the returned fields.
Report(ratios, acc, d) ==
    [prediction |-> d.prediction,
     confidence |-> Round(d.confidence, 1000),
     certainty |-> Round(d.certainty, 1000),
     scores |-> [male |-> Round(d.male_score, 1000),
                 female |-> Round(d.female_score, 1000)],
     indicators_used |-> Cardinality(DOMAIN acc.indicators),
     total_possible_indicators |-> Cardinality(DOMAIN indicator_weights),
     indicator_details |-> acc.indicators,
     ratios_calculated |-> ratios,
     total_weight |-> acc.total_weight,
     weighted_scores |-> [male |-> acc.male, female |-> acc.female],
     male_score |-> d.male_score,
     female_score |-> d.female_score]

\* the final prediction from the sums of the two loops
Decide(ratios, acc) ==
    Report(ratios, acc, FinalDecision(acc.total_weight, acc.male, acc.female))

\* the loop over the direct measurements, then the loop over the ratios
Aggregate(m, ratios) ==
    Decide(ratios,
           Loop(Loop([indicators |-> <<>>, male |-> Zero, female |-> Zero,
                      total_weight |-> Zero],
                     DirectNames, m),
                RatioNames, ratios))

\* type(v).__name__ of a value that is not None
TypeName(v) == IF IsText(v) THEN "str" ELSE "float"

\* str(e) of the TypeError a / b raises when one operand is a str
DivisionError(a, b) ==
    "unsupported operand type(s) for /: '" \o TypeName(a) \o "' and '" \o TypeName(b) \o "'"

\* str(e) of the TypeError value >= thresholds['male_min'] raises on a str
ComparisonError == "'>=' not supported between instances of 'str' and 'float'"

\* "if a and b: a / b" reaches the division with a str operand
DivisionRaises(a, b) == Truthy(a) /\ Truthy(b) /\ (IsText(a) \/ IsText(b))

\* The exception the try block meets first, as <<str(e)>>, or <<>> when the
\* block runs to its return: the divisions of calculate_hip_width_estimate
\* and calculate_ratios in their order, then the first comparison of
\* evaluate_indicator on each direct measurement that is not None.
Raised(m) ==
    IF IsText(m["waist_circumference"])
    THEN <<DivisionError(m["waist_circumference"], R(35, 10))>>
    ELSE IF DivisionRaises(m["shoulder_breadth"], calculate_hip_width_estimate(m))
    THEN <<DivisionError(m["shoulder_breadth"], calculate_hip_width_estimate(m))>>
    ELSE IF DivisionRaises(m["arm_span"], m["standing_height"])
    THEN <<DivisionError(m["arm_span"], m["standing_height"])>>
    ELSE IF DivisionRaises(m["head_circumference"], m["standing_height"])
    THEN <<DivisionError(m["head_circumference"], m["standing_height"])>>
    ELSE IF DivisionRaises(m["left_upper_arm_length"], m["left_forearm_length"])
    THEN <<DivisionError(m["left_upper_arm_length"], m["left_forearm_length"])>>
    ELSE IF /\ ~(Truthy(m["left_upper_arm_length"]) /\ Truthy(m["left_forearm_length"]))
            /\ DivisionRaises(m["right_upper_arm_length"], m["right_forearm_length"])
    THEN <<DivisionError(m["right_upper_arm_length"], m["right_forearm_length"])>>
    ELSE IF \E i \in DOMAIN DirectNames : IsText(m[DirectNames[i]])
    THEN <<ComparisonError>>
    ELSE <<>>

\* the exception is handed on to the caller
Caught_m16(message) == [raised |-> message]

\* except Exception as e: the mapping returned in place of a result
Caught(message) == [prediction |-> "error", confidence |-> Zero, error |-> message]

\* the try block and its handler
Try(m, raised) ==
    IF raised # <<>> THEN Caught(raised[1]) ELSE Aggregate(m, calculate_ratios(m))

predict_sex(m) == Try(m, Raised(m))

-----------------------------------------------------------------------------
(* SexPredictor.get_prediction_explanation                                 *)

\* f"{x:.1%}": the percentage with one decimal
Percent(x) == Round(RMul(x, R(100, 1)), 10)

\* the line of one indicator: its title, f"{value:.3f}" for a ratio and
\* f"{value:.1f}cm" for a length, its label and f"{conf:.1%}"
IndicatorLine(indicator, details) ==
    [indicator |-> indicator,
     value |-> IF indicator \in {RatioNames[i] : i \in DOMAIN RatioNames}
               THEN Round(details.value, 1000) ELSE Round(details.value, 10),
     unit |-> IF indicator \in {RatioNames[i] : i \in DOMAIN RatioNames} THEN "" ELSE "cm",
     prediction |-> details.prediction,
     confidence |-> Percent(details.confidence)]

\* the fields the detailed format reads with prediction_result[...]
DetailedFields == {"prediction", "confidence", "certainty", "indicators_used",
                   "indicator_details"}

\* the detailed format: the parts of the text in their order, or the
\* KeyError of the first field that is missing
Detailed(prediction_result) ==
    IF DetailedFields \subseteq DOMAIN prediction_result
    THEN [text |-> <<"Prediction: ", prediction_result.prediction,
                     "Confidence: ", Percent(prediction_result.confidence),
                     "Certainty: ", Percent(prediction_result.certainty),
                     "Based on ", prediction_result.indicators_used,
                     "Key indicators:",
                     [i \in DOMAIN SelectSeq(DirectNames \o RatioNames,
                                  LAMBDA n : n \in DOMAIN prediction_result.indicator_details) |->
                         IndicatorLine(
                             SelectSeq(DirectNames \o RatioNames,
                                 LAMBDA n : n \in DOMAIN prediction_result.indicator_details)[i],
                             prediction_result.indicator_details[
                                 SelectSeq(DirectNames \o RatioNames,
                                     LAMBDA n : n \in DOMAIN prediction_result.indicator_details)[i]])],
                     "Note: This prediction is based on established patterns of sexual dimorphism in human anthropometry and should be interpreted as an estimate only.">>,
          read |-> DetailedFields]
    ELSE [raised |-> "KeyError", read |-> DetailedFields]

\* prediction_result.get(key, default); the None of a missing prediction is
\* written "None", a value that is no label
Get(prediction_result, key, default) ==
    IF key \in DOMAIN prediction_result THEN prediction_result[key] ELSE default

\* the special message of insufficient_data is missing
get_prediction_explanation_m17(prediction_result) ==
    IF Get(prediction_result, "prediction", "None") = "error"
    THEN [text |-> <<"Error in prediction: ", Get(prediction_result, "error", "Unknown error")>>,
          read |-> {"prediction", "error"}]
    ELSE Detailed(prediction_result)

\* the text as its parts, with the fields of the result that were read
get_prediction_explanation(prediction_result) ==
    IF Get(prediction_result, "prediction", "None") = "error"
    THEN [text |-> <<"Error in prediction: ", Get(prediction_result, "error", "Unknown error")>>,
          read |-> {"prediction", "error"}]
    ELSE IF Get(prediction_result, "prediction", "None") = "insufficient_data"
    THEN [text |-> <<"Insufficient anthropometric data available for reliable sex prediction.">>,
          read |-> {"prediction"}]
    ELSE Detailed(prediction_result)

-----------------------------------------------------------------------------
(* Lengths that carry a square root                                        *)

\* coef * sqrt(rad) + off, with coef >= 0 and rad a natural number
Surd(coef, rad, off) == [coef |-> coef, rad |-> rad, off |-> off]
Plain(x) == Surd(Zero, 0, x)

\* floor(sqrt(x)): the largest n in lo..hi with n * n <= x, by bisection
ISqrtIn[t \in Nat \X Nat \X Nat] ==
    LET x == t[1]
        lo == t[2]
        hi == t[3]
        mid == (lo + hi + 1) \div 2
    IN  IF lo = hi THEN lo
        ELSE IF mid * mid <= x THEN ISqrtIn[<<x, mid, hi>>] ELSE ISqrtIn[<<x, lo, mid - 1>>]
ISqrt(x) == ISqrtIn[<<x, 0, IF x < 46340 THEN x ELSE 46340>>]

\* sqrt(rad) >= a / b and sqrt(rad) <= a / b for naturals a, b > 0, around
\* s = floor(sqrt(rad)) and r = a - s * b: between s and s + 1 the squares
\* are compared with s * s * b * b taken off both sides
SqrtGEAround(rad, b, s, r) ==
    IF r <= 0 THEN TRUE
    ELSE IF r >= b THEN FALSE
    ELSE (rad - s * s) * b * b >= r * (2 * s * b + r)
SqrtLEAround(rad, b, s, r) ==
    IF r < 0 THEN FALSE
    ELSE IF r >= b THEN TRUE
    ELSE (rad - s * s) * b * b <= r * (2 * s * b + r)
SqrtGE(rad, q) == SqrtGEAround(rad, q[2], ISqrt(rad), q[1] - ISqrt(rad) * q[2])
SqrtLE(rad, q) == SqrtLEAround(rad, q[2], ISqrt(rad), q[1] - ISqrt(rad) * q[2])

\* v >= t and v <= t for a surd v and a fraction t
SurdGE(v, t) ==
    LET s == RSub(t, v.off)
    IN  IF s[1] <= 0 THEN TRUE
        ELSE IF v.coef[1] = 0 THEN FALSE
        ELSE SqrtGE(v.rad, RDiv(s, v.coef))
SurdLE(v, t) ==
    LET s == RSub(t, v.off)
    IN  IF s[1] < 0 THEN FALSE
        ELSE IF v.coef[1] = 0 THEN TRUE
        ELSE SqrtLE(v.rad, RDiv(s, v.coef))

\* Python truthiness of an optional length: None and 0.0 are false
SurdTruthy(v) == v # None /\ ~(SurdGE(v, Zero) /\ SurdLE(v, Zero))

SurdScale(v, k) == Surd(RMul(v.coef, k), v.rad, RMul(v.off, k))
SurdPlus(v, k) == Surd(v.coef, v.rad, RAdd(v.off, k))

\* round(v, k) of a length v >= 0, with scale = 10^k: the multiple n / scale
\* nearest to v, that is (2n - 1) / (2 scale) <= v <= (2n + 1) / (2 scale), an
\* exact tie going to the even multiple.  sqrt(rad) lies in [s, s + 1) for
\* s = floor(sqrt(rad)), which leaves a handful of candidates for n.
NearestIn(v, scale, first, last) ==
    CHOOSE n \in first .. last :
        /\ SurdGE(v, R(2 * n - 1, 2 * scale))
        /\ SurdLE(v, R(2 * n + 1, 2 * scale))
        /\ n % 2 = 1 => ~SurdLE(v, R(2 * n - 1, 2 * scale))
                        /\ ~SurdGE(v, R(2 * n + 1, 2 * scale))

NearestFrom(v, scale, s, k, base) ==
    NearestIn(v, scale, Floor(RAdd(RMul(k, R(s, 1)), base)) - 1,
                        Floor(RAdd(RMul(k, R(s + 1, 1)), base)))

RoundTo(v, scale) ==
    R(NearestFrom(v, scale, ISqrt(v.rad), RMul(v.coef, R(scale, 1)),
                  RAdd(RMul(v.off, R(scale, 1)), R(1, 2))),
      scale)

\* the values are rounded to 2 decimal places
Round1_m11(v) == RoundTo(v, 100)

\* round(v, 1)
Round1(v) == RoundTo(v, 10)

-----------------------------------------------------------------------------
(* AnthropometricMeasurements.__init__                                     *)

landmark_indices ==
    [nose |-> 0, left_eye_inner |-> 1, left_eye |-> 2, left_eye_outer |-> 3,
     right_eye_inner |-> 4, right_eye |-> 5, right_eye_outer |-> 6,
     left_ear |-> 7, right_ear |-> 8, mouth_left |-> 9, mouth_right |-> 10,
     left_shoulder |-> 11, right_shoulder |-> 12, left_elbow |-> 13, right_elbow |-> 14,
     left_wrist |-> 15, right_wrist |-> 16, left_pinky |-> 17, right_pinky |-> 18,
     left_index |-> 19, right_index |-> 20, left_thumb |-> 21, right_thumb |-> 22,
     left_hip |-> 23, right_hip |-> 24, left_knee |-> 25, right_knee |-> 26,
     left_ankle |-> 27, right_ankle |-> 28, left_heel |-> 29, right_heel |-> 30,
     left_foot_index |-> 31, right_foot_index |-> 32]

DefaultRatio == R(1, 10)

-----------------------------------------------------------------------------
(* Frames: what the pose estimator finds in them                           *)

\* the keypoints the measurement formulas read
Keypoints ==
    {"nose", "left_ear", "right_ear", "left_shoulder", "right_shoulder",
     "left_elbow", "right_elbow", "left_wrist", "right_wrist", "left_hip", "right_hip",
     "left_knee", "right_knee", "left_ankle", "right_ankle"}

\* A pose: the frame size and, per keypoint, its normalised position in
\* twentieths of the frame.  "standing" is the mock pose of
\* src/tests/test_anthropometric_measurements.py (setUp); "leaning" has
\* oblique limbs, ankles at different heights and coincident left hip and
\* knee; "reclined" is a person seen from the side, feet up: the left and
\* right keypoints coincide and the ankles are above the head.
Poses ==
    [standing |->
        [frame_width |-> 640, frame_height |-> 480,
         at |-> [nose |-> <<10, 2>>, left_ear |-> <<9, 2>>, right_ear |-> <<11, 2>>,
                 left_shoulder |-> <<8, 6>>, right_shoulder |-> <<12, 6>>,
                 left_elbow |-> <<6, 8>>, right_elbow |-> <<14, 8>>,
                 left_wrist |-> <<4, 10>>, right_wrist |-> <<16, 10>>,
                 left_hip |-> <<9, 12>>, right_hip |-> <<11, 12>>,
                 left_knee |-> <<9, 15>>, right_knee |-> <<11, 15>>,
                 left_ankle |-> <<9, 18>>, right_ankle |-> <<11, 18>>]],
     leaning |->
        [frame_width |-> 320, frame_height |-> 240,
         at |-> [nose |-> <<11, 3>>, left_ear |-> <<10, 2>>, right_ear |-> <<12, 3>>,
                 left_shoulder |-> <<8, 6>>, right_shoulder |-> <<13, 8>>,
                 left_elbow |-> <<7, 9>>, right_elbow |-> <<15, 9>>,
                 left_wrist |-> <<5, 11>>, right_wrist |-> <<16, 12>>,
                 left_hip |-> <<9, 12>>, right_hip |-> <<12, 13>>,
                 left_knee |-> <<9, 12>>, right_knee |-> <<13, 16>>,
                 left_ankle |-> <<8, 19>>, right_ankle |-> <<14, 17>>]],
     reclined |->
        [frame_width |-> 320, frame_height |-> 240,
         at |-> [nose |-> <<4, 15>>, left_ear |-> <<3, 14>>, right_ear |-> <<3, 14>>,
                 left_shoulder |-> <<6, 15>>, right_shoulder |-> <<6, 15>>,
                 left_elbow |-> <<8, 13>>, right_elbow |-> <<8, 13>>,
                 left_wrist |-> <<10, 12>>, right_wrist |-> <<10, 12>>,
                 left_hip |-> <<11, 15>>, right_hip |-> <<11, 15>>,
                 left_knee |-> <<14, 9>>, right_knee |-> <<14, 9>>,
                 left_ankle |-> <<17, 4>>, right_ankle |-> <<17, 4>>]]]

\* the most keypoints a frame shows with visibility 0.3 instead of 0.8
MaxHidden == 1

\* results.pose_landmarks of a frame: None when no person is found, else the
\* 33 landmarks (x, y in twentieths, visibility in tenths); a landmark no
\* formula reads sits at the centre of the frame
KeypointAt ==
    [idx \in 0..32 |->
        IF \E k \in Keypoints : landmark_indices[k] = idx
        THEN CHOOSE k \in Keypoints : landmark_indices[k] = idx ELSE "other"]

Landmark(f, idx) ==
    IF KeypointAt[idx] = "other"
    THEN [x |-> R(10, 20), y |-> R(10, 20), visibility |-> R(8, 10)]
    ELSE [x |-> R(Poses[f.pose].at[KeypointAt[idx]][1], 20),
          y |-> R(Poses[f.pose].at[KeypointAt[idx]][2], 20),
          visibility |-> IF KeypointAt[idx] \in f.hidden THEN R(3, 10) ELSE R(8, 10)]

pose_landmarks(f) ==
    IF f.pose \notin DOMAIN Poses THEN None
    ELSE [landmark |-> [i \in 1..33 |-> Landmark(f, i - 1)]]

frame_shape(f) ==
    IF f.pose \notin DOMAIN Poses THEN <<480, 640>>
    ELSE <<Poses[f.pose].frame_height, Poses[f.pose].frame_width>>

-----------------------------------------------------------------------------
(* AnthropometricMeasurements: the measurement formulas                    *)

\* the visibility test is left out
get_landmark_position_m9(landmarks, landmark_name, frame_width, frame_height) ==
    IF landmark_name \notin DOMAIN landmark_indices THEN None
    ELSE LET landmark_idx == landmark_indices[landmark_name]
         IN  IF landmark_idx < Len(landmarks.landmark)
             THEN LET landmark == landmarks.landmark[landmark_idx + 1]
                  IN  <<RMul(landmark.x, R(frame_width, 1)),
                        RMul(landmark.y, R(frame_height, 1))>>
             ELSE None

get_landmark_position(landmarks, landmark_name, frame_width, frame_height) ==
    IF landmark_name \notin DOMAIN landmark_indices THEN None
    ELSE LET landmark_idx == landmark_indices[landmark_name]
         IN  IF landmark_idx < Len(landmarks.landmark)
             THEN LET landmark == landmarks.landmark[landmark_idx + 1]
                  IN  IF RLt(R(5, 10), landmark.visibility)
                      THEN <<RMul(landmark.x, R(frame_width, 1)),
                             RMul(landmark.y, R(frame_height, 1))>>
                      ELSE None
             ELSE None

\* math.sqrt of a fraction p / q, kept as (1 / q) * sqrt(p * q)
SqrtOf(sq) == Surd(R(1, sq[2]), sq[1] * sq[2], Zero)

\* math.sqrt(dx^2 + dy^2)
Hypot(dx, dy) == SqrtOf(RAdd(RMul(dx, dx), RMul(dy, dy)))

calculate_distance_2d(point1, point2) ==
    IF point1 = None \/ point2 = None THEN None
    ELSE Hypot(RSub(point1[1], point2[1]), RSub(point1[2], point2[2]))

\* "if distance_pixels: return distance_pixels * self.pixel_to_cm_ratio"
ToCentimetres(distance_pixels, ratio) ==
    IF SurdTruthy(distance_pixels) THEN SurdScale(distance_pixels, ratio) ELSE None

\* distance between two named landmarks times the ratio: the body shared by
\* calculate_shoulder_breadth and the limb-length methods
ScaledDistance(landmarks, name1, name2, frame_width, frame_height, ratio) ==
    ToCentimetres(calculate_distance_2d(
                      get_landmark_position(landmarks, name1, frame_width, frame_height),
                      get_landmark_position(landmarks, name2, frame_width, frame_height)),
                  ratio)

calculate_shoulder_breadth(landmarks, frame_width, frame_height, ratio) ==
    ScaledDistance(landmarks, "left_shoulder", "right_shoulder",
                   frame_width, frame_height, ratio)

\* the ankle with the smaller y is taken
standing_height_reads_m21(landmarks, frame_width, frame_height, ratio_head, ratio_return) ==
    LET nose == get_landmark_position(landmarks, "nose", frame_width, frame_height)
        left_ankle == get_landmark_position(landmarks, "left_ankle", frame_width, frame_height)
        right_ankle == get_landmark_position(landmarks, "right_ankle", frame_width, frame_height)
    IN  IF nose # None /\ (left_ankle # None \/ right_ankle # None)
        THEN LET ankle == IF left_ankle # None /\ right_ankle # None
                             /\ RLt(left_ankle[2], right_ankle[2])
                          THEN left_ankle
                          ELSE IF right_ankle # None THEN right_ankle ELSE left_ankle
                 head_top_y == RSub(nose[2], RDiv(R(10, 1), ratio_head))
                 height_pixels == RSub(ankle[2], head_top_y)
             IN  IF RLt(Zero, height_pixels)
                 THEN Plain(RMul(height_pixels, ratio_return)) ELSE None
        ELSE None

\* calculate_standing_height with the two reads of self.pixel_to_cm_ratio
\* told apart: the one of head_top_y and the one of the returned product
standing_height_reads(landmarks, frame_width, frame_height, ratio_head, ratio_return) ==
    LET nose == get_landmark_position(landmarks, "nose", frame_width, frame_height)
        left_ankle == get_landmark_position(landmarks, "left_ankle", frame_width, frame_height)
        right_ankle == get_landmark_position(landmarks, "right_ankle", frame_width, frame_height)
    IN  IF nose # None /\ (left_ankle # None \/ right_ankle # None)
        THEN LET ankle == IF left_ankle # None /\ right_ankle # None
                             /\ RLt(right_ankle[2], left_ankle[2])
                          THEN left_ankle
                          ELSE IF right_ankle # None THEN right_ankle ELSE left_ankle
                 head_top_y == RSub(nose[2], RDiv(R(10, 1), ratio_head))
                 height_pixels == RSub(ankle[2], head_top_y)
             IN  IF RLt(Zero, height_pixels)
                 THEN Plain(RMul(height_pixels, ratio_return)) ELSE None
        ELSE None

\* the method run without interruption: both reads see the same ratio
calculate_standing_height(landmarks, frame_width, frame_height, ratio) ==
    standing_height_reads(landmarks, frame_width, frame_height, ratio, ratio)

\* the hand lengths are added before the conversion to centimetres
calculate_arm_span_m10(landmarks, frame_width, frame_height, ratio) ==
    LET left_wrist == get_landmark_position(landmarks, "left_wrist", frame_width, frame_height)
        right_wrist == get_landmark_position(landmarks, "right_wrist", frame_width, frame_height)
    IN  IF left_wrist # None /\ right_wrist # None
        THEN LET wrist_distance == calculate_distance_2d(left_wrist, right_wrist)
             IN  IF SurdTruthy(wrist_distance)
                 THEN SurdScale(SurdPlus(wrist_distance, R(36, 1)), ratio) ELSE None
        ELSE None

\* coincident wrists still give the two hand lengths
calculate_arm_span_m26(landmarks, frame_width, frame_height, ratio) ==
    LET left_wrist == get_landmark_position(landmarks, "left_wrist", frame_width, frame_height)
        right_wrist == get_landmark_position(landmarks, "right_wrist", frame_width, frame_height)
    IN  IF left_wrist # None /\ right_wrist # None
        THEN SurdPlus(SurdScale(calculate_distance_2d(left_wrist, right_wrist), ratio),
                      R(36, 1))
        ELSE None

calculate_arm_span(landmarks, frame_width, frame_height, ratio) ==
    LET left_wrist == get_landmark_position(landmarks, "left_wrist", frame_width, frame_height)
        right_wrist == get_landmark_position(landmarks, "right_wrist", frame_width, frame_height)
    IN  IF left_wrist # None /\ right_wrist # None
        THEN LET wrist_distance == calculate_distance_2d(left_wrist, right_wrist)
             IN  IF SurdTruthy(wrist_distance)
                 THEN SurdPlus(SurdScale(wrist_distance, ratio), R(36, 1)) ELSE None
        ELSE None

calculate_upper_arm_length(landmarks, frame_width, frame_height, side, ratio) ==
    ScaledDistance(landmarks, side \o "_shoulder", side \o "_elbow",
                   frame_width, frame_height, ratio)

calculate_forearm_length(landmarks, frame_width, frame_height, side, ratio) ==
    ScaledDistance(landmarks, side \o "_elbow", side \o "_wrist",
                   frame_width, frame_height, ratio)

calculate_thigh_length(landmarks, frame_width, frame_height, side, ratio) ==
    ScaledDistance(landmarks, side \o "_hip", side \o "_knee",
                   frame_width, frame_height, ratio)

calculate_lower_leg_length(landmarks, frame_width, frame_height, side, ratio) ==
    ScaledDistance(landmarks, side \o "_knee", side \o "_ankle",
                   frame_width, frame_height, ratio)

\* the multiplier is applied to the shoulder breadth rounded to one decimal
estimate_chest_circumference_m20(landmarks, frame_width, frame_height, ratio) ==
    LET shoulder_breadth == calculate_shoulder_breadth(landmarks, frame_width, frame_height, ratio)
    IN  IF SurdTruthy(shoulder_breadth)
        THEN SurdScale(Plain(Round1(shoulder_breadth)), R(24, 10)) ELSE None

estimate_chest_circumference(landmarks, frame_width, frame_height, ratio) ==
    LET shoulder_breadth == calculate_shoulder_breadth(landmarks, frame_width, frame_height, ratio)
    IN  IF SurdTruthy(shoulder_breadth) THEN SurdScale(shoulder_breadth, R(24, 10)) ELSE None

estimate_waist_circumference(landmarks, frame_width, frame_height, ratio) ==
    LET left_hip == get_landmark_position(landmarks, "left_hip", frame_width, frame_height)
        right_hip == get_landmark_position(landmarks, "right_hip", frame_width, frame_height)
    IN  IF left_hip # None /\ right_hip # None
        THEN LET hip_width == calculate_distance_2d(left_hip, right_hip)
             IN  IF SurdTruthy(hip_width)
                 THEN SurdScale(SurdScale(hip_width, ratio), R(28, 10)) ELSE None
        ELSE None

estimate_head_circumference(landmarks, frame_width, frame_height, ratio) ==
    LET left_ear == get_landmark_position(landmarks, "left_ear", frame_width, frame_height)
        right_ear == get_landmark_position(landmarks, "right_ear", frame_width, frame_height)
    IN  IF left_ear # None /\ right_ear # None
        THEN LET head_width == calculate_distance_2d(left_ear, right_ear)
             IN  IF SurdTruthy(head_width)
                 THEN SurdScale(SurdScale(head_width, ratio), R(314, 100)) ELSE None
        ELSE None

MeasurementNames ==
    {"shoulder_breadth", "standing_height", "arm_span",
     "left_upper_arm_length", "right_upper_arm_length",
     "left_forearm_length", "right_forearm_length",
     "left_thigh_length", "right_thigh_length",
     "left_lower_leg_length", "right_lower_leg_length",
     "chest_circumference", "waist_circumference", "head_circumference"}

\* the measurements dict before the filter: every name, None where the
\* formula gave up
RawMeasurements(landmarks, w, h, ratio) ==
    [shoulder_breadth |-> calculate_shoulder_breadth(landmarks, w, h, ratio),
     standing_height |-> calculate_standing_height(landmarks, w, h, ratio),
     arm_span |-> calculate_arm_span(landmarks, w, h, ratio),
     left_upper_arm_length |-> calculate_upper_arm_length(landmarks, w, h, "left", ratio),
     right_upper_arm_length |-> calculate_upper_arm_length(landmarks, w, h, "right", ratio),
     left_forearm_length |-> calculate_forearm_length(landmarks, w, h, "left", ratio),
     right_forearm_length |-> calculate_forearm_length(landmarks, w, h, "right", ratio),
     left_thigh_length |-> calculate_thigh_length(landmarks, w, h, "left", ratio),
     right_thigh_length |-> calculate_thigh_length(landmarks, w, h, "right", ratio),
     left_lower_leg_length |-> calculate_lower_leg_length(landmarks, w, h, "left", ratio),
     right_lower_leg_length |-> calculate_lower_leg_length(landmarks, w, h, "right", ratio),
     chest_circumference |-> estimate_chest_circumference(landmarks, w, h, ratio),
     waist_circumference |-> estimate_waist_circumference(landmarks, w, h, ratio),
     head_circumference |-> estimate_head_circumference(landmarks, w, h, ratio)]

\* "Filter out None values and round to 1 decimal place"
FilterAndRound(raw) ==
    LET kept[r \in {raw}] == [k \in {n \in DOMAIN r : r[n] # None} |-> Round1(r[k])]
    IN  kept[raw]

\* str(e) of the exception an unreadable frame makes cv2.cvtColor raise
ExceptionMessage == "Test exception"

\* the readings time.time() gives: seconds, not rounded to anything
ClockReadings == {R(1, 4), R(3, 4)}

\* The mapping after the filter.  The measurement entries are `values`;
\* `raw` is the dict before the filter; `of_frame` and `with_ratio` record the
\* frame the call was given and the ratio it read.
Filtered(raw, f, ratio) ==
    [pose_detected |-> TRUE, values |-> FilterAndRound(raw), raw |-> raw,
     calibration_note |-> ratio, of_frame |-> f, with_ratio |-> ratio]

\* the error mapping of the else branch and of the except clause
Failed(message, f, ratio) ==
    [pose_detected |-> FALSE, error |-> message, of_frame |-> f, with_ratio |-> ratio]

\* the branch "if results.pose_landmarks"
WithLandmarks(landmarks, shape, f, ratio) ==
    IF landmarks # None
    THEN Filtered(RawMeasurements(landmarks, shape[2], shape[1], ratio), f, ratio)
    ELSE Failed("No pose detected in frame", f, ratio)

\* The try block up to the metadata.  An exception anywhere in the block is
\* turned into the error mapping.
\* an exception of an internal step is not told apart from a missing pose
Measured_m15(f, ratio) == WithLandmarks(pose_landmarks(f), frame_shape(f), f, ratio)

Measured(f, ratio) ==
    IF f.pose = "unreadable" THEN Failed(ExceptionMessage, f, ratio)
    ELSE WithLandmarks(pose_landmarks(f), frame_shape(f), f, ratio)

\* the clock reading is written into the calibration note as well
Stamped_m12(returned, now) ==
    IF returned.pose_detected
    THEN [returned EXCEPT !.calibration_note = now] @@ [timestamp |-> now]
    ELSE returned

\* measurements['timestamp'] = time.time(), on the branch that found a pose
Stamped(returned, now) ==
    IF returned.pose_detected THEN returned @@ [timestamp |-> now] ELSE returned

\* the returned mapping
calculate_all_measurements(f, ratio, now) == Stamped(Measured(f, ratio), now)

-----------------------------------------------------------------------------
(* Inputs of the predictor                                                 *)

\* a value given in tenths (42.5 is T(425))
T(tenths) == R(tenths, 10)

\* Measurement mappings: the fixtures of src/tests/test_sex_prediction.py
\* (male, female, ambiguous), completed with right-arm lengths, a mapping
\* whose shoulder and head votes cancel, and one with zero lengths.
Profiles ==
    [male |->
        [shoulder_breadth |-> T(425), standing_height |-> T(1750), arm_span |-> T(1800),
         head_circumference |-> T(580), waist_circumference |-> T(850),
         left_upper_arm_length |-> T(320), left_forearm_length |-> T(220),
         right_upper_arm_length |-> T(310), right_forearm_length |-> T(230)],
     female |->
        [shoulder_breadth |-> T(340), standing_height |-> T(1620), arm_span |-> T(1620),
         head_circumference |-> T(540), waist_circumference |-> T(700),
         left_upper_arm_length |-> T(280), left_forearm_length |-> T(205),
         right_upper_arm_length |-> T(285), right_forearm_length |-> T(200)],
     ambiguous |->
        [shoulder_breadth |-> T(370), standing_height |-> T(1670), arm_span |-> T(1670),
         head_circumference |-> T(555), waist_circumference |-> T(770),
         left_upper_arm_length |-> T(300), left_forearm_length |-> T(210),
         right_upper_arm_length |-> T(290), right_forearm_length |-> T(200)],
     balanced |->
        [shoulder_breadth |-> T(380), standing_height |-> T(1720), arm_span |-> T(1760),
         head_circumference |-> T(530), waist_circumference |-> T(1000),
         left_upper_arm_length |-> T(290), left_forearm_length |-> T(200),
         right_upper_arm_length |-> T(270), right_forearm_length |-> T(200)],
     zeros |->
        [shoulder_breadth |-> T(0), standing_height |-> T(1800), arm_span |-> T(0),
         head_circumference |-> T(0), waist_circumference |-> T(0),
         left_upper_arm_length |-> T(0), left_forearm_length |-> T(210),
         right_upper_arm_length |-> T(300), right_forearm_length |-> T(200)]]

\* the mapping that carries the keys of `present` with the values of a profile;
\* reading any other key gives None, as measurements.get does
Mapping(profile, present) ==
    [k \in MeasurementKeys |-> IF k \in present THEN Profiles[profile][k] ELSE None]

\* The values evaluate_indicator is called with directly: a grid of
\* GridSteps + 1 values per indicator, laid over its thresholds.
GridSteps == 80

Grid(indicator_type) ==
    CASE indicator_type = "shoulder_breadth" -> {R(330 + k, 10) : k \in 0..GridSteps}
      [] indicator_type = "standing_height" -> {R(1500 + 5 * k, 10) : k \in 0..GridSteps}
      [] indicator_type = "head_circumference" -> {R(520 + k, 10) : k \in 0..GridSteps}
      [] indicator_type = "shoulder_hip_ratio" -> {R(230 + k, 200) : k \in 0..GridSteps}
      [] indicator_type = "armspan_height_ratio" -> {R(1880 + 5 * k, 2000) : k \in 0..GridSteps}
      [] indicator_type = "head_height_ratio" -> {R(290 + k, 1000) : k \in 0..GridSteps}
      [] indicator_type = "upperarm_forearm_ratio" -> {R(260 + k, 200) : k \in 0..GridSteps}

NoCall == [prediction |-> "no_call"]

-----------------------------------------------------------------------------
(* The predictor: a request is waiting at the start, and the call that     *)
(* serves it is one step.  The predictor keeps nothing between calls.      *)

AllMappings == {Mapping(profile, present) :
                    profile \in DOMAIN Profiles, present \in SUBSET MeasurementKeys}

IndicatorInputs == UNION {{[indicator_type |-> t, value |-> v] : v \in Grid(t)} :
                              t \in IndicatorNames}

\* mappings in which one value is a str, on the keys of two profiles
MalformedProfiles == {"male", "zeros"}

MalformedMappings ==
    {[Mapping(profile, present) EXCEPT ![k] = Text] :
        profile \in MalformedProfiles, present \in SUBSET MeasurementKeys,
        k \in MeasurementKeys}

PredictorIdle ==
    /\ measurements_in = None
    /\ indicator_in = None
    /\ result = NoCall
    /\ indicator_call = NoCall
    /\ explanation = None

PredictorInit ==
    /\ result = NoCall
    /\ indicator_call = NoCall
    /\ explanation = None
    /\ \/ measurements_in \in AllMappings /\ indicator_in = None
       \/ measurements_in = None /\ indicator_in \in IndicatorInputs

\* predictor.predict_sex(measurements)
PredictSex ==
    /\ measurements_in # None
    /\ result = NoCall
    /\ result' = predict_sex(measurements_in)
    /\ UNCHANGED <<measurements_in, indicator_in, indicator_call, explanation, engineVars>>

\* predictor.evaluate_indicator(value, indicator_type)
EvaluateIndicator ==
    /\ indicator_in # None
    /\ indicator_call = NoCall
    /\ indicator_call' = evaluate_indicator(indicator_in.value, indicator_in.indicator_type)
    /\ UNCHANGED <<measurements_in, indicator_in, result, explanation, engineVars>>

\* a caller hands any mapping to the predictor
ExplainInit ==
    /\ measurements_in \in AllMappings \cup MalformedMappings
    /\ indicator_in = None
    /\ result = NoCall
    /\ indicator_call = NoCall
    /\ explanation = None

\* the mappings a client of the endpoints starts from: every measurement of
\* a profile, or none
EndpointInit ==
    /\ measurements_in \in {Mapping(profile, present) :
                               profile \in DOMAIN Profiles, present \in {MeasurementKeys, {}}}
    /\ indicator_in = None
    /\ result = NoCall
    /\ indicator_call = NoCall
    /\ explanation = None

\* the mapping without some of its keys
Without(mapping, dropped) == [k \in DOMAIN mapping \ dropped |-> mapping[k]]

\* POST /api/sex-prediction/explanation: the client posts the result it got,
\* or a part of it, and the handler passes the posted mapping on to
\* get_prediction_explanation without a handler for what it raises
GetSexPredictionExplanation ==
    /\ result # NoCall
    /\ explanation = None
    /\ \E dropped \in SUBSET DetailedFields :
          explanation' = get_prediction_explanation(Without(result, dropped))
                            @@ [data |-> Without(result, dropped)]
    /\ UNCHANGED <<measurements_in, indicator_in, result, indicator_call, engineVars>>

\* predictor.get_prediction_explanation(result)
GetPredictionExplanation ==
    /\ result # NoCall
    /\ explanation = None
    /\ explanation' = get_prediction_explanation(result)
    /\ UNCHANGED <<measurements_in, indicator_in, result, indicator_call, engineVars>>


-----------------------------------------------------------------------------
(* The engine: one object whose calibration ratio lasts between calls,     *)
(* in front of a camera whose frame the caller hands to it.                *)

\* the frames with at most n keypoints hidden, the frame without a person
\* and the frame that cannot be converted
Frames(n) ==
    {[pose |-> p, hidden |-> h] :
        p \in DOMAIN Poses, h \in {x \in SUBSET Keypoints : Cardinality(x) <= n}}
    \cup {[pose |-> "none", hidden |-> {}], [pose |-> "unreadable", hidden |-> {}]}

\* the ratios the calibration endpoint is called with
CalibrationInputs == {R(1, 10), R(1, 5), Zero, R(-1, 1)}

EngineIdle ==
    /\ pixel_to_cm_ratio = DefaultRatio
    /\ frame = None
    /\ measurements = None
    /\ previous = None
    /\ calibration_call = None
    /\ last_accepted = None
    /\ running = None
    /\ module_copy = None

\* a fresh engine and the frame the camera holds
EngineInit ==
    /\ pixel_to_cm_ratio = DefaultRatio
    /\ frame \in Frames(MaxHidden)
    /\ measurements = None
    /\ previous = None
    /\ calibration_call = None
    /\ last_accepted = None
    /\ running = None
    /\ module_copy = None

\* a calibrated engine in front of a person in full view
CameraInit ==
    /\ pixel_to_cm_ratio \in {r \in CalibrationInputs : RLt(Zero, r)}
    /\ frame \in Frames(0)
    /\ measurements = None
    /\ previous = None
    /\ calibration_call = [ratio |-> pixel_to_cm_ratio, stored_before |-> DefaultRatio,
                           returned |-> TRUE]
    /\ last_accepted = pixel_to_cm_ratio
    /\ running = None
    /\ module_copy = None

\* the most set_calibration calls that arrive while one
\* calculate_all_measurements call is under way
MaxWrites == 1

\* a fresh engine and a frame with every keypoint in sight, or without a pose
CameraFrame ==
    /\ pixel_to_cm_ratio = DefaultRatio
    /\ frame \in Frames(0)
    /\ measurements = None
    /\ previous = None
    /\ calibration_call = None
    /\ last_accepted = None
    /\ running = None
    /\ module_copy = None

\* zero is accepted as a ratio
set_calibration_m13(stored, ratio) == IF RLe(Zero, ratio) THEN ratio ELSE stored

\* the stored ratio after set_calibration(ratio)
set_calibration(stored, ratio) == IF RLt(Zero, ratio) THEN ratio ELSE stored

\* the value set_calibration(ratio) returns
set_calibration_returns(ratio) == RLt(Zero, ratio)

\* engine.set_calibration(ratio)
SetCalibration ==
    \E ratio \in CalibrationInputs :
        /\ frame # None
        /\ pixel_to_cm_ratio' = set_calibration(pixel_to_cm_ratio, ratio)
        /\ calibration_call' = [ratio |-> ratio, stored_before |-> pixel_to_cm_ratio,
                                returned |-> set_calibration_returns(ratio)]
        /\ last_accepted' = IF set_calibration_returns(ratio) THEN ratio ELSE last_accepted
        /\ running # None => running.writes < MaxWrites
        /\ running' = IF running = None THEN None ELSE [running EXCEPT !.writes = @ + 1]
        /\ UNCHANGED <<frame, measurements, previous, module_copy,
                   predictorVars>>

\* the camera: one more keypoint of the person goes out of sight
Occlude ==
    \E k \in Keypoints :
        /\ frame # None
        /\ frame.pose \in DOMAIN Poses
        /\ k \notin frame.hidden
        /\ Cardinality(frame.hidden) < MaxHidden
        /\ frame' = [frame EXCEPT !.hidden = @ \cup {k}]
        /\ UNCHANGED <<pixel_to_cm_ratio, measurements, previous,
                       calibration_call, last_accepted, running, module_copy,
                   predictorVars>>

\* the ratios the engine can hold
StoredRatios == {DefaultRatio} \cup {r \in CalibrationInputs : RLt(Zero, r)}

\* Measured(f, ratio) for every frame and stored ratio, worked out once and
\* kept as an explicit table
MeasuredOn ==
    [i \in Frames(MaxHidden) \X StoredRatios |-> Measured(i[1], i[2])] @@ <<>>

\* the call ends with the default ratio stored
CalculateAllMeasurements_m14 ==
    /\ frame # None
    /\ \E now \in ClockReadings :
          measurements' = Stamped(MeasuredOn[<<frame, pixel_to_cm_ratio>>], now)
    /\ previous' = measurements
    /\ pixel_to_cm_ratio' = DefaultRatio
    /\ UNCHANGED <<frame, calibration_call, last_accepted, running, module_copy,
                   predictorVars>>

\* engine.calculate_all_measurements(frame)
CalculateAllMeasurements ==
    /\ frame # None
    /\ \E now \in ClockReadings :
          measurements' = Stamped(MeasuredOn[<<frame, pixel_to_cm_ratio>>], now)
    /\ previous' = measurements
    /\ UNCHANGED <<pixel_to_cm_ratio, frame, calibration_call, last_accepted, running,
                   module_copy,
                   predictorVars>>

-----------------------------------------------------------------------------
(* The engine of src/modules/anthropometric/measurements.py beside the one  *)
(* of src/anthropometric_measurements.py.  Its measurement methods and its  *)
(* set_calibration are line for line those of the first engine; __init__    *)
(* stores another default ratio.                                            *)

\* self.pixel_to_cm_ratio = 0.33 in __init__ of the second engine
ModuleDefaultRatio == R(33, 100)

\* a fresh instance of each engine and the frame both are given
CopiesInit ==
    /\ pixel_to_cm_ratio = DefaultRatio
    /\ frame \in Frames(MaxHidden)
    /\ measurements = None
    /\ previous = None
    /\ calibration_call = None
    /\ last_accepted = None
    /\ running = None
    /\ module_copy = [pixel_to_cm_ratio |-> ModuleDefaultRatio, measurements |-> None]

\* MeasuredOn, with the ratio the second engine starts from
ModuleMeasuredOn ==
    ([i \in Frames(MaxHidden) \X {ModuleDefaultRatio} |-> Measured(i[1], i[2])] @@ <<>>)
        @@ MeasuredOn

\* set_calibration(ratio) on both engines
SetCalibrationOnBoth ==
    \E ratio \in CalibrationInputs :
        /\ module_copy # None
        /\ pixel_to_cm_ratio' = set_calibration(pixel_to_cm_ratio, ratio)
        /\ calibration_call' = [ratio |-> ratio, stored_before |-> pixel_to_cm_ratio,
                                returned |-> set_calibration_returns(ratio)]
        /\ last_accepted' = IF set_calibration_returns(ratio) THEN ratio ELSE last_accepted
        /\ module_copy' = [module_copy EXCEPT
                              !.pixel_to_cm_ratio = set_calibration(@, ratio)]
        /\ UNCHANGED <<frame, measurements, previous, running, predictorVars>>

\* calculate_all_measurements(frame) on both engines, at the same clock reading
CalculateAllMeasurementsOnBoth ==
    /\ module_copy # None
    /\ \E now \in ClockReadings :
          /\ measurements' = Stamped(MeasuredOn[<<frame, pixel_to_cm_ratio>>], now)
          /\ module_copy' = [module_copy EXCEPT
                !.measurements =
                    Stamped(ModuleMeasuredOn[<<frame, module_copy.pixel_to_cm_ratio>>], now)]
    /\ previous' = measurements
    /\ UNCHANGED <<pixel_to_cm_ratio, frame, calibration_call, last_accepted, running,
                   predictorVars>>

-----------------------------------------------------------------------------
(* calculate_all_measurements in a request thread of the threaded server,  *)
(* while set_calibration runs in another: the object keeps no lock, so the *)
(* other thread can run between any two reads of self.pixel_to_cm_ratio.   *)

\* the reads of self.pixel_to_cm_ratio in the order of the method body; the
\* read of calibration_note comes last, at the return
ReadOrder ==
    <<"shoulder_breadth", "head_top_y", "standing_height", "arm_span",
      "left_upper_arm_length", "right_upper_arm_length",
      "left_forearm_length", "right_forearm_length",
      "left_thigh_length", "right_thigh_length",
      "left_lower_leg_length", "right_lower_leg_length",
      "chest_circumference", "waist_circumference", "head_circumference">>

\* the value a formula gives when it reads the ratio now; standing_height
\* read it once before, for head_top_y
ValueUnder(name, f, ratio, ratio_head) ==
    IF name = "standing_height"
    THEN standing_height_reads(pose_landmarks(f), frame_shape(f)[2], frame_shape(f)[1],
                               ratio_head, ratio)
    ELSE MeasuredOn[<<f, ratio>>].raw[name]

\* the frame gives no landmarks, or its conversion raises
Fails(f) == f.pose = "unreadable" \/ pose_landmarks(f) = None

\* a request thread enters calculate_all_measurements(frame): up to
\* "if results.pose_landmarks", and to the return when there is no pose
Call ==
    /\ frame # None
    /\ running = None
    /\ measurements = None
    /\ IF Fails(frame)
       THEN /\ measurements' = MeasuredOn[<<frame, pixel_to_cm_ratio>>]
            /\ running' = None
       ELSE /\ running' = [step |-> 1, raw |-> <<>>, ratio_head |-> None, writes |-> 0]
            /\ UNCHANGED measurements
    /\ UNCHANGED <<pixel_to_cm_ratio, frame, previous, calibration_call, last_accepted,
                   module_copy,
                   predictorVars>>

\* the thread runs up to and over its next read of self.pixel_to_cm_ratio
ReadRatio ==
    /\ running # None
    /\ running.step <= Len(ReadOrder)
    /\ running' =
          IF ReadOrder[running.step] = "head_top_y"
          THEN [running EXCEPT !.step = @ + 1, !.ratio_head = pixel_to_cm_ratio]
          ELSE [running EXCEPT
                   !.step = @ + 1,
                   !.raw = @ @@ (ReadOrder[running.step] :>
                                    ValueUnder(ReadOrder[running.step], frame,
                                               pixel_to_cm_ratio, running.ratio_head))]
    /\ UNCHANGED <<pixel_to_cm_ratio, frame, measurements, previous, calibration_call,
                   last_accepted, module_copy,
                   predictorVars>>

\* the filter, the rounding, the metadata and the return
Return ==
    /\ running # None
    /\ running.step > Len(ReadOrder)
    /\ \E now \in ClockReadings :
          measurements' = Stamped(Filtered(running.raw, frame, pixel_to_cm_ratio), now)
    /\ previous' = measurements
    /\ running' = None
    /\ UNCHANGED <<pixel_to_cm_ratio, frame, calibration_call, last_accepted, module_copy,
                   predictorVars>>

Init == PredictorInit /\ EngineIdle

Next == PredictSex \/ EvaluateIndicator

\* the predictor serving one request
Spec == Init /\ [][Next]_vars

EngineStart == PredictorIdle /\ EngineInit

EngineNext == SetCalibration \/ CalculateAllMeasurements

\* the engine: calibration and measurement calls on the frame the camera holds
SpecEngine == EngineStart /\ [][EngineNext]_vars

\* the explanation endpoint: a client posts a prediction result
EndpointStart == EndpointInit /\ EngineIdle
EndpointNext == PredictSex \/ GetSexPredictionExplanation
SpecEndpoint == EndpointStart /\ [][EndpointNext]_vars

ExplainStart == ExplainInit /\ EngineIdle
ExplainNext == PredictSex \/ GetPredictionExplanation
SpecExplain == ExplainStart /\ [][ExplainNext]_vars

\* the two engines side by side on the same calls
CopiesStart == PredictorIdle /\ CopiesInit
CopiesNext == SetCalibrationOnBoth \/ CalculateAllMeasurementsOnBoth
SpecCopies == CopiesStart /\ [][CopiesNext]_vars

\* a fresh engine behind the threaded server and the frame the camera holds
ConcurrentStart == PredictorIdle /\ CameraFrame
ConcurrentNext == Call \/ ReadRatio \/ Return \/ SetCalibration
SpecConcurrent == ConcurrentStart /\ [][ConcurrentNext]_vars

CameraStart == PredictorIdle /\ CameraInit

CameraNext == Occlude \/ CalculateAllMeasurements

\* the engine measuring while keypoints go out of sight
SpecCamera == CameraStart /\ [][CameraNext]_vars

-----------------------------------------------------------------------------
(* Properties of the predictor                                             *)

InUnit(x) == RLe(Zero, x) /\ RLe(x, One)

Returned == result.prediction \in {"male", "female", "uncertain", "insufficient_data"}
Decided == result.prediction \in {"male", "female", "uncertain"}

Details == result.indicator_details
Labelled(labels) == {n \in DOMAIN Details : Details[n].prediction \in labels}

RECURSIVE SumWeights(_)
SumWeights(S) ==
    IF S = {} THEN Zero
    ELSE LET n == CHOOSE x \in S : TRUE
         IN  RAdd(indicator_weights[n], SumWeights(S \ {n}))

RECURSIVE SumVotes(_)
SumVotes(S) ==
    IF S = {} THEN Zero
    ELSE LET n == CHOOSE x \in S : TRUE
         IN  RAdd(RMul(indicator_weights[n], Details[n].confidence), SumVotes(S \ {n}))

\* C1: whatever mapping predict_sex is given, the confidence, the certainty
\* and both scores it returns lie in [0, 1].
C1_ConfidenceBounds ==
    Returned =>
        /\ InUnit(result.confidence)
        /\ InUnit(result.certainty)
        /\ InUnit(result.scores.male)
        /\ InUnit(result.scores.female)

\* a decided result one of whose indicators had its confidence capped at 1.0
C1_Witness ==
    /\ result.prediction \in {"male", "female"}
    /\ \E n \in DOMAIN Details : Details[n].confidence = One
    /\ \E n \in DOMAIN Details : Details[n].prediction = "uncertain"

\* C2: with at least one indicator evaluated the label follows the strict
\* order of the normalised scores (the confidence being the winning score),
\* equal scores give "uncertain" with confidence 0.5, and a result all of
\* whose indicators are labelled male is male with scores.male > scores.female.
C2_LabelFollowsScores ==
    (Returned /\ result.indicators_used > 0) =>
        /\ RLt(result.female_score, result.male_score) =>
              /\ result.prediction = "male"
              /\ result.confidence = result.scores.male
        /\ RLt(result.male_score, result.female_score) =>
              /\ result.prediction = "female"
              /\ result.confidence = result.scores.female
        /\ result.male_score = result.female_score =>
              /\ result.prediction = "uncertain"
              /\ result.confidence = R(5, 10)
        /\ Labelled({"male"}) = DOMAIN Details =>
              /\ result.prediction = "male"
              /\ RLt(result.scores.female, result.scores.male)

\* equal scores that are not both zero: a male and a female vote cancel
C2_Witness ==
    /\ result.prediction = "uncertain"
    /\ result.male_score = result.female_score
    /\ RLt(Zero, result.male_score)

\* C3: the prediction is insufficient_data exactly when no indicator was
\* evaluated (indicators_used = 0, total_weight = 0); confidence, certainty
\* and both scores are then 0; the mapping without any measurement is such a case.
C3_InsufficientData ==
    Returned =>
        /\ (result.prediction = "insufficient_data") <=> (result.indicators_used = 0)
        /\ (result.prediction = "insufficient_data") <=> (result.total_weight = Zero)
        /\ result.prediction = "insufficient_data" =>
              /\ result.confidence = Zero
              /\ result.certainty = Zero
              /\ result.scores.male = Zero
              /\ result.scores.female = Zero
        /\ (\A k \in MeasurementKeys : measurements_in[k] = None) =>
              result.prediction = "insufficient_data"

\* predict_sex has answered the mapping that carries no measurement
C3_Witness ==
    /\ measurements_in # None
    /\ \A k \in MeasurementKeys : measurements_in[k] = None
    /\ result.prediction = "insufficient_data"

\* C4: every evaluated indicator adds its whole weight to total_weight
\* whatever its label, so the scores are the votes divided by the weight of
\* all evaluated indicators, the uncertain ones included.
C4_WeightOfEveryIndicator ==
    Decided =>
        /\ result.total_weight = SumWeights(DOMAIN Details)
        /\ result.male_score = RDiv(SumVotes(Labelled({"male"})), SumWeights(DOMAIN Details))
        /\ result.female_score =
              RDiv(SumVotes(Labelled({"female"})), SumWeights(DOMAIN Details))

\* an uncertain indicator beside a definite one: the definite score is diluted
C4_Witness ==
    /\ result.prediction \in {"male", "female"}
    /\ Labelled({"uncertain"}) # {}
    /\ RLt(SumWeights(Labelled({"male", "female"})), result.total_weight)

\* C5 as stated: only the indicators with a definite male/female label count
\* toward total_weight.
C5_OnlyDefiniteWeights ==
    Decided => result.total_weight = SumWeights(Labelled({"male", "female"}))

\* C5 as amended: an uncertain indicator adds to neither score, and its
\* weight is part of total_weight: total_weight exceeds the weight of the
\* definite indicators by exactly the weight of the uncertain ones.
C5_UncertainWeightCounted ==
    Decided =>
        /\ result.weighted_scores.male = SumVotes(Labelled({"male"}))
        /\ result.weighted_scores.female = SumVotes(Labelled({"female"}))
        /\ RSub(result.total_weight, SumWeights(Labelled({"male", "female"})))
              = SumWeights(Labelled({"uncertain"}))

\* every evaluated indicator is uncertain: weight without any vote
C5_Witness ==
    /\ Decided
    /\ Labelled({"uncertain"}) = DOMAIN Details
    /\ RLt(Zero, result.total_weight)
    /\ result.weighted_scores = [male |-> Zero, female |-> Zero]

Evaluated == indicator_call.prediction # "no_call"
Between(lo, v, hi) == RLt(lo, v) /\ RLt(v, hi)

\* C6: for the four absolute-threshold indicators a value at or above
\* male_min is male, a value at or below female_max is female, and a value
\* strictly between the two thresholds is uncertain with confidence 0.3.
C6_ThresholdLabels ==
    (Evaluated /\ indicator_in.indicator_type \in AbsoluteNames) =>
        LET t == AbsoluteThresholds(indicator_in.indicator_type)
            v == indicator_in.value
        IN  /\ RLe(t.male_min, v) => indicator_call.prediction = "male"
            /\ RLe(v, t.female_max) => indicator_call.prediction = "female"
            /\ (Between(t.female_max, v, t.male_min) \/ Between(t.male_min, v, t.female_max))
                  => indicator_call = [prediction |-> "uncertain", confidence |-> R(3, 10)]

InZone(v, zone) == RLe(zone[1], v) /\ RLe(v, zone[2])

\* C7 as stated: a value inside the indicator's overlap zone is uncertain
\* with confidence 0.3.
C7_OverlapZoneUncertain ==
    (Evaluated /\ indicator_in.indicator_type \in AbsoluteNames) =>
        (InZone(indicator_in.value, AbsoluteThresholds(indicator_in.indicator_type).overlap_zone)
            => indicator_call = [prediction |-> "uncertain", confidence |-> R(3, 10)])

\* C7 as amended: a value inside the overlap zone is uncertain with
\* confidence 0.3 exactly when it lies strictly above female_max and strictly
\* below male_min; every other value of the zone is labelled male or female.
C7_UncertainBand ==
    (Evaluated /\ indicator_in.indicator_type \in AbsoluteNames) =>
        LET t == AbsoluteThresholds(indicator_in.indicator_type)
            v == indicator_in.value
        IN  InZone(v, t.overlap_zone) =>
                IF Between(t.female_max, v, t.male_min)
                THEN indicator_call = [prediction |-> "uncertain", confidence |-> R(3, 10)]
                ELSE indicator_call.prediction \in {"male", "female"}

\* shoulder_breadth 37.0 has been evaluated
C7_Witness ==
    /\ Evaluated
    /\ indicator_in = [indicator_type |-> "shoulder_breadth", value |-> T(370)]
    /\ indicator_call = [prediction |-> "uncertain", confidence |-> R(3, 10)]

PresentIndicators ==
    {DirectNames[i] : i \in {j \in DOMAIN DirectNames : measurements_in[DirectNames[j]] # None}}
    \cup {n \in DOMAIN result.ratios_calculated : result.ratios_calculated[n] # None}

\* C8: indicator_details holds exactly the indicators whose value is present
\* (a direct measurement that is not None, a ratio that is not None),
\* indicators_used counts them, an absent indicator adds no weight, and
\* indicators_used never exceeds total_possible_indicators, which is 7.
C8_IndicatorsUsed ==
    Returned =>
        /\ DOMAIN Details = PresentIndicators
        /\ result.indicators_used = Cardinality(PresentIndicators)
        /\ result.total_weight = SumWeights(PresentIndicators)
        /\ result.indicators_used <= result.total_possible_indicators
        /\ result.total_possible_indicators = 7

\* a zero shoulder breadth is evaluated while other indicators are absent
C8_Witness ==
    /\ Returned
    /\ measurements_in["shoulder_breadth"] = Zero
    /\ "shoulder_breadth" \in DOMAIN Details
    /\ result.ratios_calculated["shoulder_hip_ratio"] = None
    /\ result.indicators_used < 7

-----------------------------------------------------------------------------
(* Properties of the measurement engine                                    *)

\* the keypoints a measurement cannot do without; standing_height also
\* reads the ankles, of which it needs one
Requires(name) ==
    CASE name \in {"shoulder_breadth", "chest_circumference"} -> {"left_shoulder", "right_shoulder"}
      [] name = "standing_height" -> {"nose"}
      [] name = "arm_span" -> {"left_wrist", "right_wrist"}
      [] name = "left_upper_arm_length" -> {"left_shoulder", "left_elbow"}
      [] name = "right_upper_arm_length" -> {"right_shoulder", "right_elbow"}
      [] name = "left_forearm_length" -> {"left_elbow", "left_wrist"}
      [] name = "right_forearm_length" -> {"right_elbow", "right_wrist"}
      [] name = "left_thigh_length" -> {"left_hip", "left_knee"}
      [] name = "right_thigh_length" -> {"right_hip", "right_knee"}
      [] name = "left_lower_leg_length" -> {"left_knee", "left_ankle"}
      [] name = "right_lower_leg_length" -> {"right_knee", "right_ankle"}
      [] name = "waist_circumference" -> {"left_hip", "right_hip"}
      [] name = "head_circumference" -> {"left_ear", "right_ear"}

Ankles == {"left_ankle", "right_ankle"}

\* two calls in a row on the same person with the same ratio, one more
\* keypoint hidden in the second
OccludedBetween ==
    /\ previous # None /\ previous.pose_detected
    /\ measurements # None
    /\ measurements.of_frame.pose = previous.of_frame.pose
    /\ measurements.with_ratio = previous.with_ratio
    /\ previous.of_frame.hidden \subseteq measurements.of_frame.hidden
    /\ Cardinality(measurements.of_frame.hidden \ previous.of_frame.hidden) = 1

Removed == CHOOSE k \in measurements.of_frame.hidden : k \notin previous.of_frame.hidden

Before == previous.values
After == measurements.values

Kept(name) ==
    (name \in DOMAIN After) = (name \in DOMAIN Before)
    /\ (name \in DOMAIN Before => After[name] = Before[name])

\* the y pixel coordinate of a keypoint of the frame of the second call
PixelY(k) ==
    LET pose == Poses[measurements.of_frame.pose]
    IN  RMul(R(pose.at[k][2], 20), R(pose.frame_height, 1))

\* the standing height measured from the nose to ankle k
HeightTo(k) ==
    Round1(Plain(RAdd(RMul(RSub(PixelY(k), PixelY("nose")), measurements.with_ratio),
                      R(10, 1))))

LinearNames ==
    {"shoulder_breadth", "standing_height", "arm_span",
     "left_upper_arm_length", "right_upper_arm_length",
     "left_forearm_length", "right_forearm_length",
     "left_thigh_length", "right_thigh_length",
     "left_lower_leg_length", "right_lower_leg_length"}

\* two calls in a row on the same frame
Recalibrated ==
    /\ previous # None /\ previous.pose_detected
    /\ measurements # None /\ measurements.pose_detected
    /\ measurements.of_frame = previous.of_frame

\* the ratio of the second call over the ratio of the first
Factor == RDiv(measurements.with_ratio, previous.with_ratio)

\* the part of a linear measurement that does not come from pixels
Offset(name) ==
    CASE name = "arm_span" -> R(36, 1)
      [] name = "standing_height" -> R(10, 1)
      [] OTHER -> Zero

\* C10 as the specification states it: between two calls on the same frame
\* every linear measurement present in both returned sets is multiplied by
\* the factor the ratio was multiplied by.
C10_ProportionalToRatio ==
    Recalibrated =>
        \A name \in LinearNames \cap DOMAIN Before \cap DOMAIN After :
            After[name] = RMul(Before[name], Factor)

\* C10: between two calls on the same frame, a linear measurement present
\* in both returned sets is the rounding to one decimal of a length whose
\* part above the fixed addition (36 for arm_span, 10 for standing_height,
\* 0 for shoulder_breadth and the limb segments) is multiplied by the factor
\* the ratio was multiplied by; the shoulder_breadth before rounding
\* exactly doubles when the ratio doubles.
C10_ScalesBeforeRounding ==
    Recalibrated =>
        /\ \A name \in LinearNames \cap DOMAIN Before \cap DOMAIN After :
              After[name] =
                  Round1(SurdPlus(SurdScale(SurdPlus(previous.raw[name], RNeg(Offset(name))),
                                            Factor),
                                  Offset(name)))
        /\ ("shoulder_breadth" \in DOMAIN Before /\ Factor = R(2, 1)) =>
              measurements.raw["shoulder_breadth"] =
                  SurdScale(previous.raw["shoulder_breadth"], R(2, 1))

\* the ratio is doubled between two calls: the shoulder breadth doubles
\* before rounding and not after it, and the arm span does not double
C10_Witness ==
    /\ Recalibrated
    /\ Factor = R(2, 1)
    /\ "shoulder_breadth" \in DOMAIN Before \cap DOMAIN After
    /\ "arm_span" \in DOMAIN Before \cap DOMAIN After
    /\ measurements.raw["shoulder_breadth"] = SurdScale(previous.raw["shoulder_breadth"], R(2, 1))
    /\ After["shoulder_breadth"] # RMul(Before["shoulder_breadth"], R(2, 1))
    /\ After["arm_span"] # RMul(Before["arm_span"], R(2, 1))

\* a call has returned a measurement set
Measurement == measurements # None /\ measurements.pose_detected

\* the numbers of the returned mapping
NumericEntries == {After[k] : k \in DOMAIN After} \cup {measurements.timestamp}

\* a number with at most one decimal place
OneDecimal(x) == RMul(x, R(10, 1))[2] = 1

\* C11 as the specification states it: every number of a returned
\* measurement set is non-negative and has one decimal place.
C11_EveryValueRounded ==
    Measurement => \A x \in NumericEntries : RLe(Zero, x) /\ OneDecimal(x)

\* C11: every measurement entry of a returned measurement set is one of the
\* 14 names, is non-negative, has one decimal place and lies within 0.05 of
\* the unrounded length; the timestamp entry is non-negative.
C11_MeasurementsRounded ==
    Measurement =>
        /\ DOMAIN After \subseteq MeasurementNames
        /\ \A k \in DOMAIN After :
              /\ RLe(Zero, After[k])
              /\ OneDecimal(After[k])
              /\ SurdGE(measurements.raw[k], RSub(After[k], R(1, 20)))
              /\ SurdLE(measurements.raw[k], RAdd(After[k], R(1, 20)))
        /\ RLe(Zero, measurements.timestamp)

\* a measurement set whose shoulder breadth was changed by the rounding and
\* whose timestamp has more than one decimal place
C11_Witness ==
    /\ Measurement
    /\ "shoulder_breadth" \in DOMAIN After
    /\ ~SurdGE(measurements.raw["shoulder_breadth"], After["shoulder_breadth"])
    /\ ~OneDecimal(measurements.timestamp)

\* two calls in a row on the same frame with the same stored ratio
Repeated ==
    /\ previous # None
    /\ measurements # None
    /\ measurements.of_frame = previous.of_frame
    /\ measurements.with_ratio = previous.with_ratio

\* a returned mapping without its timestamp entry
WithoutTimestamp(returned) == [k \in DOMAIN returned \ {"timestamp"} |-> returned[k]]

\* C12 as the specification states it: two calls on the same frame with the
\* same ratio return mappings equal in every key and value.
C12_IdenticalOutput == Repeated => measurements = previous

\* C12: two calls on the same frame with the same ratio return mappings with
\* the same keys and, except under the key timestamp, the same values.
C12_IdenticalButTimestamp ==
    Repeated =>
        /\ DOMAIN measurements = DOMAIN previous
        /\ WithoutTimestamp(measurements) = WithoutTimestamp(previous)

\* two measurement sets of the same frame that differ in the timestamp alone
C12_Witness ==
    /\ Repeated
    /\ Measurement
    /\ After = Before /\ DOMAIN After # {}
    /\ measurements.timestamp # previous.timestamp

\* C13: a set_calibration call with a ratio <= 0 (0 and -1 among them)
\* returns False and leaves the stored ratio as it was; a call with a ratio
\* > 0 returns True and the stored ratio is its argument.
C13_SetCalibration ==
    calibration_call # None =>
        IF RLe(calibration_call.ratio, Zero)
        THEN /\ calibration_call.returned = FALSE
             /\ pixel_to_cm_ratio = calibration_call.stored_before
        ELSE /\ calibration_call.returned = TRUE
             /\ pixel_to_cm_ratio = calibration_call.ratio

\* on an engine calibrated to 0.2, set_calibration(0) has returned False
C13_Witness ==
    /\ calibration_call # None
    /\ calibration_call.ratio = Zero
    /\ calibration_call.returned = FALSE
    /\ calibration_call.stored_before = R(1, 5)
    /\ pixel_to_cm_ratio = R(1, 5)

\* the stored ratio is positive and is the last accepted argument, or the default
Calibrated ==
    /\ RLt(Zero, pixel_to_cm_ratio)
    /\ pixel_to_cm_ratio = IF last_accepted = None THEN DefaultRatio ELSE last_accepted

\* C14: after any sequence of set_calibration and calculate_all_measurements
\* calls on a fresh engine the stored ratio is strictly positive and is the
\* argument of the most recent set_calibration call that returned True, or
\* the default 0.1 when there has been none; calculate_all_measurements
\* never changes it.
C14_StoredRatio ==
    /\ []Calibrated
    /\ [][CalculateAllMeasurements => pixel_to_cm_ratio' = pixel_to_cm_ratio]_vars

\* set_calibration(0.2) was accepted, set_calibration(-1) was rejected after
\* it, and calls on the frame have returned since, one of them without a
\* measurement set
C14_Witness ==
    /\ last_accepted = R(1, 5)
    /\ calibration_call # None /\ calibration_call.ratio = R(-1, 1)
    /\ pixel_to_cm_ratio = R(1, 5)
    /\ measurements # None /\ measurements.with_ratio = R(1, 5)
    /\ ~measurements.pose_detected

\* the keys of a mapping calculate_all_measurements returned
Keys(returned) ==
    IF returned.pose_detected
    THEN DOMAIN returned.values \cup {"pose_detected", "timestamp", "calibration_note"}
    ELSE DOMAIN returned \ {"of_frame", "with_ratio"}

\* the messages of the failures calculate_all_measurements meets on a frame
Failure(f) ==
    IF f.pose = "unreadable" THEN {ExceptionMessage}
    ELSE IF pose_landmarks(f) = None THEN {"No pose detected in frame"}
    ELSE {}

\* C15: every calculate_all_measurements call returns a mapping; on a frame
\* without a pose it is exactly {pose_detected: False, error: 'No pose
\* detected in frame'}, on a frame an internal step raises on it is exactly
\* {pose_detected: False, error: the exception's message}, and a returned
\* mapping has the key 'error' exactly when its pose_detected is False.
C15_FailureMapping ==
    measurements # None =>
        /\ "pose_detected" \in Keys(measurements)
        /\ "error" \in Keys(measurements) <=> ~measurements.pose_detected
        /\ measurements.pose_detected <=> Failure(measurements.of_frame) = {}
        /\ ~measurements.pose_detected =>
              /\ Keys(measurements) = {"pose_detected", "error"}
              /\ measurements.error \in Failure(measurements.of_frame)

\* a call on a frame whose colour conversion raises has returned the
\* exception's message
C15_Witness ==
    /\ measurements # None
    /\ frame.pose = "unreadable"
    /\ ~measurements.pose_detected
    /\ measurements.error = ExceptionMessage

\* the keys of the mapping whose values are a str
TextKeys(m) == {k \in DOMAIN m : IsText(m[k])}

\* the messages of the TypeErrors a str operand raises in the pipeline
TypeErrors ==
    {ComparisonError, DivisionError(Text, Zero), DivisionError(Zero, Text),
     DivisionError(Text, Text)}

\* C16: predict_sex returns a mapping whatever it is called with; when a
\* step of the pipeline raises (a str among the direct measurements, or in
\* a division of the ratio derivation) the mapping is exactly {prediction:
\* 'error', confidence: 0, error: the exception's message}, and a mapping
\* with numeric values only never gives 'error'.
C16_ExceptionsCaught ==
    result # NoCall =>
        /\ "prediction" \in DOMAIN result
        /\ result.prediction = "error" =>
              /\ DOMAIN result = {"prediction", "confidence", "error"}
              /\ result.confidence = Zero
              /\ result.error \in TypeErrors
              /\ TextKeys(measurements_in) # {}
        /\ (\E i \in DOMAIN DirectNames : IsText(measurements_in[DirectNames[i]])) =>
              result.prediction = "error"
        /\ IsText(measurements_in["waist_circumference"]) =>
              /\ result.prediction = "error"
              /\ result.error = DivisionError(Text, Zero)

\* a str standing_height under a numeric arm_span: the division of the
\* arm span by the height raised and the call returned the error mapping
C16_Witness ==
    /\ result # NoCall
    /\ measurements_in["standing_height"] = Text
    /\ measurements_in["arm_span"] = T(1800)
    /\ result.prediction = "error"
    /\ result.error = "unsupported operand type(s) for /: 'float' and 'str'"

\* C17: get_prediction_explanation returns a text for every result of
\* predict_sex; for an 'error' result the text is 'Error in prediction: '
\* followed by the message, for 'insufficient_data' it is the fixed
\* sentence, and in both cases no field of the result is read beyond
\* 'prediction' and the message.
C17_ExplanationOfEveryResult ==
    explanation # None =>
        /\ "text" \in DOMAIN explanation
        /\ result.prediction \in {"error", "insufficient_data", "male", "female", "uncertain"}
        /\ result.prediction = "error" =>
              /\ explanation.text = <<"Error in prediction: ", result.error>>
              /\ explanation.read \subseteq {"prediction", "error"}
        /\ result.prediction = "insufficient_data" =>
              /\ explanation.text =
                    <<"Insufficient anthropometric data available for reliable sex prediction.">>
              /\ explanation.read = {"prediction"}

\* the explanation of the result of a mapping without any usable value
C17_Witness ==
    /\ explanation # None
    /\ result.prediction = "insufficient_data"
    /\ Len(explanation.text) = 1

\* C19: the seven weights of indicator_weights add up to 1, and a call in
\* which all seven indicators are evaluated ends with total_weight = 1.
C19_WeightsSumToOne ==
    /\ Cardinality(DOMAIN indicator_weights) = 7
    /\ SumWeights(DOMAIN indicator_weights) = One
    /\ (Decided /\ result.indicators_used = 7) => result.total_weight = One

\* a call on a mapping that gives all seven indicators a value
C19_Witness ==
    /\ Decided
    /\ result.indicators_used = 7
    /\ DOMAIN Details = DOMAIN indicator_weights
    /\ result.total_weight = One

\* the pixel column of keypoint k in the frame of the last call
PixelX(k) ==
    LET pose == Poses[measurements.of_frame.pose]
    IN  RMul(R(pose.at[k][1], 20), R(pose.frame_width, 1))

\* the pixel distance between two keypoints of that frame
Apart(a, b) == Hypot(RSub(PixelX(a), PixelX(b)), RSub(PixelY(a), PixelY(b)))

\* the keypoints each circumference is estimated from and its multiplier
Circumferences ==
    [chest_circumference |-> [from |-> <<"left_shoulder", "right_shoulder">>, times |-> R(24, 10)],
     waist_circumference |-> [from |-> <<"left_hip", "right_hip">>, times |-> R(28, 10)],
     head_circumference |-> [from |-> <<"left_ear", "right_ear">>, times |-> R(314, 100)]]

\* the unrounded linear measurement under a circumference, in centimetres
Underlying(name) ==
    SurdScale(Apart(Circumferences[name].from[1], Circumferences[name].from[2]),
              measurements.with_ratio)

\* both keypoints of a circumference are in sight and apart
Estimable(name) ==
    /\ Circumferences[name].from[1] \notin measurements.of_frame.hidden
    /\ Circumferences[name].from[2] \notin measurements.of_frame.hidden
    /\ SurdTruthy(Apart(Circumferences[name].from[1], Circumferences[name].from[2]))

\* C20: in every returned measurement set each circumference is its
\* multiplier (2.4, 2.8, 3.14) times the unrounded distance in centimetres
\* between its two keypoints (shoulders, hips, ears), rounded to one decimal;
\* shoulders 128 pixels apart at ratio 0.1 give shoulder_breadth 12.8 and
\* chest_circumference 30.7; chest_circumference is present exactly when
\* shoulder_breadth is.
C20_Circumferences ==
    Measurement =>
        /\ \A name \in DOMAIN Circumferences :
              /\ name \in DOMAIN After <=> Estimable(name)
              /\ name \in DOMAIN After =>
                    After[name] = Round1(SurdScale(Underlying(name), Circumferences[name].times))
        /\ "chest_circumference" \in DOMAIN After <=> "shoulder_breadth" \in DOMAIN After
        /\ "shoulder_breadth" \in DOMAIN After =>
              After["shoulder_breadth"] = Round1(Underlying("chest_circumference"))
        /\ ( /\ Estimable("chest_circumference")
             /\ SurdGE(Apart("left_shoulder", "right_shoulder"), R(128, 1))
             /\ SurdLE(Apart("left_shoulder", "right_shoulder"), R(128, 1))
             /\ measurements.with_ratio = R(1, 10) ) =>
              /\ After["shoulder_breadth"] = R(128, 10)
              /\ After["chest_circumference"] = R(307, 10)

\* shoulders 83.5 pixels apart at ratio 0.1: shoulder_breadth 8.4 and
\* chest_circumference 20.0, which is not 2.4 times 8.4 rounded (20.2)
C20_Witness ==
    /\ Measurement
    /\ measurements.of_frame.pose = "leaning"
    /\ measurements.with_ratio = R(1, 10)
    /\ "chest_circumference" \in DOMAIN After
    /\ After["shoulder_breadth"] = R(84, 10)
    /\ After["chest_circumference"] = R(200, 10)
    /\ "waist_circumference" \in DOMAIN After
    /\ "head_circumference" \notin DOMAIN After

\* C18: with set_calibration running beside calculate_all_measurements on
\* the same engine, every returned measurement set is the set of a call run
\* entirely under one ratio: its values and its calibration note are those
\* of the frame under a single stored ratio.
C18_NoMixedRatios ==
    Measurement =>
        \E r \in StoredRatios :
            /\ measurements.values = MeasuredOn[<<measurements.of_frame, r>>].values
            /\ measurements.calibration_note = r

\* the ankles of the frame of the last call that are in sight
UsableAnkles == Ankles \ measurements.of_frame.hidden

\* the usable ankle with the larger y, the right one when both have the same
ChosenAnkle ==
    IF UsableAnkles = Ankles
    THEN IF RLt(PixelY("right_ankle"), PixelY("left_ankle"))
         THEN "left_ankle" ELSE "right_ankle"
    ELSE CHOOSE k \in UsableAnkles : TRUE

\* the estimated top of the head: 10 cm above the nose, in pixels
HeadTopY == RSub(PixelY("nose"), RDiv(R(10, 1), measurements.with_ratio))

\* C21: a returned standing_height is the distance in pixels from the
\* estimated head top (nose y minus 10 / ratio) to the usable ankle with the
\* larger y (the right one on equal y, the only one when the other is out of
\* sight), times the ratio, and it is returned when the nose and an ankle
\* are usable and that distance is positive.
C21_StandingHeight ==
    Measurement =>
        /\ "standing_height" \in DOMAIN After =>
              /\ "nose" \notin measurements.of_frame.hidden
              /\ UsableAnkles # {}
              /\ After["standing_height"] =
                    Round1(Plain(RMul(RSub(PixelY(ChosenAnkle), HeadTopY),
                                      measurements.with_ratio)))
        /\ ( /\ "nose" \notin measurements.of_frame.hidden
             /\ UsableAnkles # {}
             /\ RLt(HeadTopY, PixelY(ChosenAnkle)) ) =>
              "standing_height" \in DOMAIN After

\* both ankles in sight at different heights, the left one lower in the
\* image: the height is measured to the left ankle
C21_Witness ==
    /\ Measurement
    /\ UsableAnkles = Ankles
    /\ RLt(PixelY("right_ankle"), PixelY("left_ankle"))
    /\ "standing_height" \in DOMAIN After
    /\ After["standing_height"] = HeightTo("left_ankle")
    /\ After["standing_height"] # HeightTo("right_ankle")

\* the distance of the evaluated value from a typical value
DistanceFrom(typical) == RAbs(RSub(indicator_in.value, typical))

\* max(0.5, 1 - distance / 0.05)
NearnessConfidence(distance) == RMax(R(5, 10), RSub(One, RDiv(distance, R(5, 100))))

\* C22: for armspan_height_ratio evaluate_indicator gives the label of the
\* nearer typical value (male 1.03, female 1.00), female when the value is
\* as far from both, with confidence max(0.5, 1 - distance / 0.05) of the
\* chosen distance; the label is never uncertain and the confidence lies
\* in [0.5, 1].
C22_ArmspanNearest ==
    (Evaluated /\ indicator_in.indicator_type = "armspan_height_ratio") =>
        /\ indicator_call.prediction =
              IF RLt(DistanceFrom(R(103, 100)), DistanceFrom(One)) THEN "male" ELSE "female"
        /\ indicator_call.confidence =
              NearnessConfidence(RMin(DistanceFrom(R(103, 100)), DistanceFrom(One)))
        /\ RLe(R(5, 10), indicator_call.confidence)
        /\ RLe(indicator_call.confidence, One)

\* the value 1.015, as far from 1.03 as from 1.00, evaluated as female
C22_Witness ==
    /\ Evaluated
    /\ indicator_in.indicator_type = "armspan_height_ratio"
    /\ indicator_in.value = R(1015, 1000)
    /\ indicator_call = [prediction |-> "female", confidence |-> R(7, 10)]

\* the ratios a predict_sex call derived
Ratios == result.ratios_calculated

\* a measurement the ratios can use: given and not 0
Usable(k) == measurements_in[k] # None /\ measurements_in[k] # Zero

\* numerator / denominator when both measurements are usable, else None
Quotient(numerator, denominator) ==
    IF Usable(numerator) /\ Usable(denominator)
    THEN RDiv(measurements_in[numerator], measurements_in[denominator]) ELSE None

\* the measurements each ratio cannot do without
RequiredInputs ==
    [shoulder_hip_ratio |-> {"shoulder_breadth", "waist_circumference"},
     armspan_height_ratio |-> {"arm_span", "standing_height"},
     head_height_ratio |-> {"head_circumference", "standing_height"},
     upperarm_forearm_ratio |-> {}]

\* C23: calculate_ratios returns the four ratio names, each None or a
\* quotient of its own inputs only: shoulder_hip_ratio is shoulder_breadth /
\* (waist_circumference / 3.5) and None without a waist circumference, and a
\* ratio is None whenever one of its required inputs is missing, whatever
\* the other measurements are.
C23_RatiosIndependent ==
    Returned =>
        /\ DOMAIN Ratios = DOMAIN RequiredInputs
        /\ Ratios["shoulder_hip_ratio"] =
              IF Usable("shoulder_breadth") /\ Usable("waist_circumference")
              THEN RDiv(measurements_in["shoulder_breadth"],
                        RDiv(measurements_in["waist_circumference"], R(35, 10)))
              ELSE None
        /\ Ratios["armspan_height_ratio"] = Quotient("arm_span", "standing_height")
        /\ Ratios["head_height_ratio"] = Quotient("head_circumference", "standing_height")
        /\ Ratios["upperarm_forearm_ratio"] \in
              {None, Quotient("left_upper_arm_length", "left_forearm_length"),
               Quotient("right_upper_arm_length", "right_forearm_length")}
        /\ \A name \in DOMAIN RequiredInputs :
              (\E k \in RequiredInputs[name] : measurements_in[k] = None) =>
                  Ratios[name] = None
        /\ ( measurements_in["left_upper_arm_length"] = None
             /\ measurements_in["right_upper_arm_length"] = None ) =>
              Ratios["upperarm_forearm_ratio"] = None

\* no waist circumference and no standing height beside every other
\* measurement: two ratios are None and the arm ratio is still a quotient
C23_Witness ==
    /\ Returned
    /\ measurements_in["waist_circumference"] = None
    /\ measurements_in["standing_height"] = None
    /\ Usable("shoulder_breadth") /\ Usable("arm_span") /\ Usable("head_circumference")
    /\ Ratios["shoulder_hip_ratio"] = None
    /\ Ratios["armspan_height_ratio"] = None
    /\ Ratios["head_height_ratio"] = None
    /\ Ratios["upperarm_forearm_ratio"] # None

\* C24: in a male, female or uncertain result the certainty is
\* min(1.0, |male_score - female_score| + 0.5) of the normalised scores, in
\* the three decimals of the returned mapping; it is at least 0.5, and
\* exactly 0.5 when the prediction is uncertain.
C24_Certainty ==
    Decided =>
        /\ result.certainty =
              Round(RMin(One, RAdd(RAbs(RSub(result.male_score, result.female_score)),
                                   R(5, 10))), 1000)
        /\ RLe(R(5, 10), result.certainty)
        /\ RLe(result.certainty, One)
        /\ result.prediction = "uncertain" => result.certainty = R(5, 10)

\* a decided result whose certainty lies strictly between 0.5 and 1
C24_Witness ==
    /\ result.prediction \in {"male", "female"}
    /\ RLt(R(5, 10), result.certainty)
    /\ RLt(result.certainty, One)
    /\ result.male_score # Zero /\ result.female_score # Zero

\* C25: whatever mapping the explanation endpoint passes to
\* get_prediction_explanation, a male, female or uncertain result without
\* its confidence, certainty, indicators_used or indicator_details among
\* them, the call returns a text and raises nothing.
C25_ExplanationNeverRaises ==
    explanation # None => "text" \in DOMAIN explanation

\* the required keypoints of a measurement are in sight (and an ankle, for
\* standing_height)
AllUsable(name) ==
    /\ Requires(name) \cap measurements.of_frame.hidden = {}
    /\ name = "standing_height" => UsableAnkles # {}

\* the two keypoints of a measurement are at the same pixel
Coincident(name) ==
    \A a, b \in Requires(name) : PixelX(a) = PixelX(b) /\ PixelY(a) = PixelY(b)

\* C26: a measurement whose required keypoints are all usable is missing
\* from the returned set exactly when the pixel distance between its two
\* keypoints is 0 (arm_span and chest_circumference included) or, for
\* standing_height, when the chosen ankle's y is not greater than the
\* estimated head-top y.
C26_OmittedWhenDegenerate ==
    Measurement =>
        \A name \in MeasurementNames :
            AllUsable(name) =>
                ( name \notin DOMAIN After <=>
                     IF name = "standing_height"
                     THEN RLe(PixelY(ChosenAnkle), HeadTopY)
                     ELSE Coincident(name) )

\* the person seen from the side with the feet up: no arm span, no chest
\* circumference and no standing height, the limb lengths are returned
C26_Witness ==
    /\ Measurement
    /\ measurements.of_frame.hidden = {}
    /\ Coincident("arm_span") /\ "arm_span" \notin DOMAIN After
    /\ Coincident("chest_circumference") /\ "chest_circumference" \notin DOMAIN After
    /\ RLe(PixelY(ChosenAnkle), HeadTopY) /\ "standing_height" \notin DOMAIN After
    /\ "left_upper_arm_length" \in DOMAIN After

\* the linear term of head_height_ratio before the cap, on the side of the
\* midpoint 0.32 the value is on
HeadHeightTerm(value) ==
    IF RLe(R(32, 100), value)
    THEN RAdd(RDiv(RSub(value, R(31, 100)), R(2, 100)), R(5, 10))
    ELSE RAdd(RDiv(RSub(R(33, 100), value), R(2, 100)), R(5, 10))

\* C27: for head_height_ratio every value gets confidence exactly 1.0, male
\* at or above the midpoint 0.32 and female below it: on both sides the
\* linear term with divisor 0.02 is at least 1 before the cap; an evaluated
\* head_height_ratio therefore votes with its full weight.
C27_HeadHeightFullConfidence ==
    /\ (Evaluated /\ indicator_in.indicator_type = "head_height_ratio") =>
          /\ indicator_call.confidence = One
          /\ indicator_call.prediction =
                IF RLe(R(32, 100), indicator_in.value) THEN "male" ELSE "female"
          /\ RLe(One, HeadHeightTerm(indicator_in.value))
    /\ (Returned /\ "head_height_ratio" \in DOMAIN Details) =>
          /\ Details["head_height_ratio"].confidence = One
          /\ Details["head_height_ratio"].prediction \in {"male", "female"}

\* the midpoint itself, where the term is exactly 1, evaluated as male
C27_Witness ==
    /\ Evaluated
    /\ indicator_in.indicator_type = "head_height_ratio"
    /\ indicator_in.value = R(32, 100)
    /\ HeadHeightTerm(indicator_in.value) = One
    /\ indicator_call = [prediction |-> "male", confidence |-> One]

\* the measurements given as exactly 0
ZeroKeys == {k \in MeasurementKeys : measurements_in[k] = Zero}

\* C28: on a mapping of numbers predict_sex never returns 'error'; a direct
\* measurement of exactly 0 is evaluated, labelled female and counted in
\* indicators_used, while a ratio with a 0 among its inputs is None and is
\* not evaluated (the arm ratio then comes from the other side or is None),
\* so no division by zero takes place.
C28_ZeroPresentButNoRatio ==
    result # NoCall =>
        /\ Returned
        /\ result.indicators_used = Cardinality(DOMAIN Details)
        /\ \A i \in DOMAIN DirectNames :
              DirectNames[i] \in ZeroKeys =>
                  /\ DirectNames[i] \in DOMAIN Details
                  /\ Details[DirectNames[i]].value = Zero
                  /\ Details[DirectNames[i]].prediction = "female"
        /\ \A name \in DOMAIN RequiredInputs :
              RequiredInputs[name] \cap ZeroKeys # {} =>
                  /\ Ratios[name] = None
                  /\ name \notin DOMAIN Details
        /\ {"left_upper_arm_length", "left_forearm_length"} \cap ZeroKeys # {} =>
              Ratios["upperarm_forearm_ratio"] \in
                  {None, Quotient("right_upper_arm_length", "right_forearm_length")}
        /\ ( {"left_upper_arm_length", "left_forearm_length"} \cap ZeroKeys # {}
             /\ Ratios["upperarm_forearm_ratio"] = None ) =>
              "upperarm_forearm_ratio" \notin DOMAIN Details

\* shoulder breadth, head circumference and arm span 0 beside a height: the
\* two direct indicators vote female and the ratios over them are None
C28_Witness ==
    /\ Returned
    /\ {"shoulder_breadth", "head_circumference", "arm_span", "waist_circumference"}
          \subseteq ZeroKeys
    /\ Usable("standing_height")
    /\ result.indicators_used >= 3
    /\ Details["shoulder_breadth"].prediction = "female"
    /\ Ratios["armspan_height_ratio"] = None
    /\ Ratios["head_height_ratio"] = None
    /\ Ratios["shoulder_hip_ratio"] = None

LeftPair == {"left_upper_arm_length", "left_forearm_length"}
RightPair == {"right_upper_arm_length", "right_forearm_length"}

\* both lengths of one side are given and not 0
PairUsable(pair) == \A k \in pair : Usable(k)

\* C29: upperarm_forearm_ratio is left upper arm / left forearm whenever both
\* left lengths are present (given and not 0), whatever the right ones are;
\* it is right upper arm / right forearm only when a left length is missing
\* and both right lengths are present; with no complete pair, one left and
\* one right length included, it is None.
C29_LeftPairFirst ==
    Returned =>
        /\ PairUsable(LeftPair) =>
              Ratios["upperarm_forearm_ratio"] =
                  Quotient("left_upper_arm_length", "left_forearm_length")
        /\ (~PairUsable(LeftPair) /\ PairUsable(RightPair)) =>
              Ratios["upperarm_forearm_ratio"] =
                  Quotient("right_upper_arm_length", "right_forearm_length")
        /\ (~PairUsable(LeftPair) /\ ~PairUsable(RightPair)) =>
              /\ Ratios["upperarm_forearm_ratio"] = None
              /\ "upperarm_forearm_ratio" \notin DOMAIN Details

\* all four lengths given, the two sides giving different quotients: the
\* left one is returned
C29_Witness ==
    /\ Returned
    /\ PairUsable(LeftPair)
    /\ PairUsable(RightPair)
    /\ Quotient("left_upper_arm_length", "left_forearm_length")
          # Quotient("right_upper_arm_length", "right_forearm_length")
    /\ Ratios["upperarm_forearm_ratio"] =
          Quotient("left_upper_arm_length", "left_forearm_length")

\* what a caller gets from a returned mapping, the clock reading left out
Observed(returned) ==
    IF returned = None THEN None
    ELSE IF returned.pose_detected
    THEN <<TRUE, returned.values, returned.calibration_note>>
    ELSE <<FALSE, returned.error>>

\* C30 as the specification states it: side by side from fresh instances,
\* on the same set_calibration and calculate_all_measurements calls with the
\* same keypoints, the two engines hold the same calibration ratio and return
\* the same measurement values at every step.
C30_CopiesEquivalent ==
    module_copy # None =>
        /\ module_copy.pixel_to_cm_ratio = pixel_to_cm_ratio
        /\ Observed(module_copy.measurements) = Observed(measurements)

\* the two engines have returned measurements that differ before any
\* calibration was accepted
C30_Diverged ==
    /\ module_copy # None
    /\ last_accepted = None
    /\ Measurement
    /\ module_copy.measurements.pose_detected
    /\ module_copy.measurements.values # measurements.values

=============================================================================
